---- MODULE Spec2Model ----
(***************************************************************************)
(* The transaction-analysis pipeline of TXray: the staged run             *)
(* Extract -> Call-Trace Enrichment -> Call-Trace Explanation -> Draft -> *)
(* Verify -> Output over one shared context, the fusion of the trace      *)
(* service's and the explorer's internal-transaction views, and the       *)
(* progress events delivered to the run's sink.                            *)
(*                                                                         *)
(* One action models one graph node (the whole handler).  The results of  *)
(* the external collaborators (ledger, trace service, explorer, text       *)
(* generation) are the inputs of the actions, drawn from small sets.       *)
(***************************************************************************)
EXTENDS Integers, Sequences, FiniteSets, TLC

VARIABLES
  pc,    \* the graph node that runs next ("done" after the run returned)
  cfg,   \* process configuration and the way the run was started
  ctx,   \* the run context (AnalysisState)
  log,   \* in order: every external call made and every event delivered to the sink
  ret    \* what the collaborators did: whether the mandatory fetch succeeded, the
         \* transaction the ledger returned, what the trace service and the
         \* explorer returned to a completed Extract, and which text-generation
         \* calls failed

vars == <<pc, cfg, ctx, log, ret>>

(***************************************************************************)
(* Bounds of the model.                                                    *)
(***************************************************************************)
MaxNodes == 2      \* nodes of a call tree returned by the trace service
MaxExplorer == 2   \* entries of the explorer's internal-transaction list

(***************************************************************************)
(* JavaScript values.  null and undefined are NULL; an optional object is  *)
(* a sequence of length at most one.                                       *)
(***************************************************************************)
NULL == "<null>"
None == <<>>
Some(v) == <<v>>

\* x || d on strings: the empty string and null are falsy.
OrElse(x, d) == IF x = NULL \/ x = "" THEN d ELSE x

Range(s) == { s[i] : i \in 1..Len(s) }

Min(a, b) == IF a <= b THEN a ELSE b

\* A faulty slice that keeps one element more.
TakeOneMore(s, n) == SubSeq(s, 1, Min(n + 1, Len(s)))

\* s.slice(0, n) on arrays.
Take(s, n) == SubSeq(s, 1, Min(n, Len(s)))

RECURSIVE Concat(_)
Concat(ss) == IF ss = <<>> THEN <<>> ELSE Head(ss) \o Concat(Tail(ss))

\* BigInt(s) accepts a decimal literal or 0x followed by at least one hex
\* digit; over the amounts of the model every string but the bare "0x" parses.
BigIntThrows(s) == s = "0x"

(***************************************************************************)
(* The world outside the run: the chain, the offline label store and the   *)
(* values the collaborators can return.                                    *)
(***************************************************************************)
\* Addresses that carry bytecode on chain.
ContractAddrs == {"b2", "c3", "t1", "n1"}

\* The offline label store (getKnownAddressLabel).
KnownLabel(a) == IF a = "b2" THEN "Router" ELSE NULL

TRANSFER_TOPIC == "Transfer(address,address,uint256)"

\* Receipt logs: an ERC-20 Transfer (amount in data), an ERC-721 Transfer
\* (token id indexed, empty data) and an Approval.
Erc20Log == [address |-> "t1", topics |-> <<TRANSFER_TOPIC, "u0", "b2">>, data |-> "0x64"]
Erc721Log == [address |-> "n1", topics |-> <<TRANSFER_TOPIC, "z0", "u0", "7">>, data |-> "0x"]
ApprovalLog == [address |-> "t1", topics |-> <<"Approval(address,address,uint256)", "u0", "b2">>, data |-> "0x64"]

CALLDATA == "0xa9059cbb0000"
\* Calldata whose selector no table knows, and calldata shorter than a selector.
UNKNOWN_CALLDATA == "0xdeadbeef0000"
SHORT_CALLDATA == "0x12"
INITCODE == "0x60806040"

\* Transactions with their receipt logs: a contract creation that moves an
\* ERC-20 token, a call of a contract, a plain value transfer to a wallet,
\* and a contract creation that mints an NFT.
TxKinds ==
  { [from |-> "u0", to |-> NULL, value |-> "0", gasPrice |-> 30, input |-> INITCODE,
     logs |-> <<ApprovalLog, Erc20Log>>],
    [from |-> "u0", to |-> "b2", value |-> "0", gasPrice |-> 30, input |-> CALLDATA,
     logs |-> <<>>],
    [from |-> "u0", to |-> "w9", value |-> "5", gasPrice |-> 30, input |-> "0x",
     logs |-> <<>>],
    [from |-> "u0", to |-> NULL, value |-> "0", gasPrice |-> 30, input |-> INITCODE,
     logs |-> <<Erc721Log>>] }

\* Outcome of the mandatory ledger fetch: getTransactionDetails fails, the
\* second receipt fetch fails, or both succeed.
MandatoryOutcomes == {"tx_failed", "receipt_failed", "ok"}

\* The explorer's ABI answer for the destination: none (unverified, failed
\* or timed out), an ABI that decodes the input, an ABI that does not.
AbiOutcomes == {"none", "decodes", "mismatch"}

\* Payloads of call-trace nodes as the trace service reports them
\* (convertTrace); value is omitted for calls that cannot carry one.
NodeKinds ==
  { [type |-> "CALL", from |-> "a1", to |-> "b2", value |-> "0x1"],
    [type |-> "DELEGATECALL", from |-> "b2", to |-> "c3", value |-> NULL] }

MkNode(k, sub) ==
  [type |-> k.type, from |-> k.from, to |-> k.to, value |-> k.value, calls |-> sub]

\* All call trees with exactly n nodes, and all forests (child lists) with n.
RECURSIVE TreesN(_), ForestsN(_)
TreesN(n) ==
  IF n = 0 THEN {} ELSE { MkNode(k, f) : k \in NodeKinds, f \in ForestsN(n - 1) }
ForestsN(n) ==
  IF n = 0 THEN {<<>>}
  ELSE UNION { { <<t>> \o f : t \in TreesN(j), f \in ForestsN(n - j) } : j \in 1..n }

AllTrees == UNION { TreesN(n) : n \in 1..MaxNodes }

\* traceHistoricalTransaction: null, or a result whose trace wraps the root.
TraceResults == {None} \cup { Some([trace |-> <<t>>]) : t \in AllTrees }

\* Entries of the explorer's txlistinternal answer: a value transfer, and a
\* failed creation reported without a type.
ExplorerKinds ==
  { [from |-> "d4", to |-> "e5", value |-> "100", type |-> "call", gas |-> "2300",
     gasUsed |-> "0", isError |-> "0", errCode |-> ""],
    [from |-> "e5", to |-> "", value |-> "0", type |-> "", gas |-> "9000",
     gasUsed |-> "9000", isError |-> "1", errCode |-> "Out of gas"] }

RECURSIVE SeqsUpTo(_, _)
SeqsUpTo(S, n) ==
  IF n = 0 THEN {<<>>}
  ELSE SeqsUpTo(S, n - 1) \cup
       { Append(s, x) : s \in { q \in SeqsUpTo(S, n - 1) : Len(q) = n - 1 }, x \in S }

\* getInternalTransactions: the list ([] when the explorer is unavailable).
ExplorerLists == SeqsUpTo(ExplorerKinds, MaxExplorer)

\* getGasPriceAtBlock: the reference price in Gwei, 0 when unavailable.
GasRefs == {0, 20}

\* getTokenInfoFromRPC and getTokenInfo answers for one token.
RpcTokenInfos == {None, Some([name |-> "Tok", symbol |-> "TOK", decimals |-> "6"])}
ExplorerTokenInfos == {None, Some([name |-> "Tok", symbol |-> "TOK", decimals |-> "6"])}

\* The text-generation collaborator's answers.
\* NULL stands for a call that failed.
ExplainReplies == {NULL, "The sender calls the router."}
DraftReplies == {NULL, "", "1. swap"}
\* A fact-check reply: whether it starts with OK, whether it contains
\* "no error", and its lines with their bullet marker.
VerifyReplies ==
  { [startsOK |-> TRUE, noError |-> FALSE, lines |-> <<[bullet |-> FALSE, text |-> "OK"]>>],
    [startsOK |-> FALSE, noError |-> FALSE,
     lines |-> <<[bullet |-> FALSE, text |-> "Errors:"],
                 [bullet |-> TRUE, text |-> "wrong amount"]>>] }

(***************************************************************************)
(* The log: external calls and the events the sink receives.               *)
(***************************************************************************)
Ev(n) == [k |-> "event", n |-> n, a |-> ""]
Call(n, a) == [k |-> "call", n |-> n, a |-> a]

\* getProgress()?.(event): delivered when a sink is bound, otherwise a no-op.
Emit(sink, n) == IF sink THEN <<Ev(n)>> ELSE <<>>

\* An event whose payload the properties read; a: the payload's number in
\* decimal.
EmitWith(sink, n, a) == IF sink THEN <<[k |-> "event", n |-> n, a |-> a]>> ELSE <<>>

DecimalText ==
  <<"1", "2", "3", "4", "5", "6", "7", "8", "9", "10",
    "11", "12", "13", "14", "15", "16", "17", "18", "19", "20", "21">>

NumberText(n) == IF n = 0 THEN "0" ELSE DecimalText[n]

IsEvent(e) == e.k = "event"
IsCall(e) == e.k = "call"

\* The event stream of the run, as the sink saw it.
Events == SelectSeq(log, IsEvent)

(***************************************************************************)
(* Helpers of the nodes.                                                   *)
(***************************************************************************)
\* r.f, undefined when the object has no such property.
Get(r, f) == IF f \in DOMAIN r THEN r[f] ELSE NULL

Truthy(x) == x # NULL /\ x # ""

\* Array.from(new Set(xs)): first occurrences, in order.
RECURSIVE Unique(_)
Unique(xs) ==
  IF xs = <<>> THEN <<>>
  ELSE LET rest == Unique(SubSeq(xs, 1, Len(xs) - 1))
           x == xs[Len(xs)]
       IN IF \E i \in 1..Len(rest) : rest[i] = x THEN rest ELSE Append(rest, x)

\* A faulty label lookup that asks the explorer for the contract's name when
\* the offline store has no label.
GetAddressLabelAskingExplorer(address) ==
  [label |-> KnownLabel(address),
   calls |-> <<Call("getAddressLabel", address)>> \o
             (IF KnownLabel(address) = NULL THEN <<Call("getContractName", address)>>
              ELSE <<>>)]

\* getAddressLabel: the label of the offline store or null; nothing else is
\* called.
GetAddressLabel(address) ==
  [label |-> KnownLabel(address), calls |-> <<Call("getAddressLabel", address)>>]

IsTransferLog(l) == l.topics[1] = TRANSFER_TOPIC /\ Len(l.topics) >= 3

\* extractTokenFlows: one flow per Transfer log with at least three topics;
\* the amount is the log's data.
ExtractTokenFlows(logs) ==
  LET sel == SelectSeq(logs, IsTransferLog)
  IN [i \in 1..Len(sel) |->
        [token |-> sel[i].address, from |-> sel[i].topics[2],
         to |-> sel[i].topics[3], amount |-> sel[i].data]]

\* decodeCalldata: the 4-byte selector ("0x" for empty or short input) and
\* its signature from the local selector table.
SelectorOf(input) ==
  IF input = NULL \/ input = "" \/ input = "0x" \/ input = SHORT_CALLDATA THEN "0x"
  ELSE IF input = CALLDATA THEN "0xa9059cbb"
  ELSE IF input = UNKNOWN_CALLDATA THEN "0xdeadbeef"
  ELSE input

SignatureOf(sel) == IF sel = "0xa9059cbb" THEN "transfer(address,uint256)" ELSE NULL

\* A faulty traversal listing a node after its subtrees.
RECURSIVE ExtractAllCallsPostOrder(_)
ExtractAllCallsPostOrder(call) ==
  Concat([i \in 1..Len(call.calls) |-> ExtractAllCallsPostOrder(call.calls[i])]) \o
  <<call>>

\* extractAllCallsFromTrace: the node, then each subtree in listed order.
RECURSIVE ExtractAllCallsFromTrace(_)
ExtractAllCallsFromTrace(call) ==
  <<call>> \o
  Concat([i \in 1..Len(call.calls) |-> ExtractAllCallsFromTrace(call.calls[i])])

\* The internal-transaction form of a trace call (tenderlyInternalTxs).
TenderlyItx(call) ==
  [from |-> call.from, to |-> call.to, value |-> OrElse(call.value, "0"),
   type |-> call.type, gas |-> Get(call, "gas"), gasUsed |-> Get(call, "gasUsed"),
   error |-> Get(call, "error")]

\* formattedInternalTxs: the fields kept in the context.
FormatItx(itx) ==
  [from |-> itx.from, to |-> itx.to, value |-> OrElse(itx.value, "0"),
   type |-> OrElse(itx.type, "call"), gas |-> Get(itx, "gas"),
   gasUsed |-> Get(itx, "gasUsed"), isError |-> Get(itx, "isError")]

\* Two faulty fusions: one that appends the explorer's list to the trace's,
\* and one that forgets the fallback to the explorer.
FuseByMerging(tenderlyInternalTxs, etherscanInternalTxs) ==
  tenderlyInternalTxs \o etherscanInternalTxs

FuseTraceOnly(tenderlyInternalTxs, etherscanInternalTxs) ==
  tenderlyInternalTxs

\* The fusion rule: the trace-derived list when it is non-empty, else the
\* explorer's list.
FuseInternalTxs(tenderlyInternalTxs, etherscanInternalTxs) ==
  IF Len(tenderlyInternalTxs) > 0 THEN tenderlyInternalTxs ELSE etherscanInternalTxs

\* formattedInternalTxs: the fused list in the context's form.
FormattedInternalTxs(internalTxs) ==
  [i \in 1..Len(internalTxs) |-> FormatItx(internalTxs[i])]

TOKEN_LOOKUPS == 5

\* One token's metadata lookup: the on-chain read first, the explorer when
\* the read gave neither name nor symbol.
TokenLookup(token, src) ==
  IF src.rpc # None /\ (Truthy(src.rpc[1].name) \/ Truthy(src.rpc[1].symbol))
  THEN [token |-> token,
        info |-> Some([name |-> src.rpc[1].name, symbol |-> src.rpc[1].symbol,
                       decimals |-> OrElse(src.rpc[1].decimals, "18")]),
        calls |-> <<Call("getTokenInfoFromRPC", token)>>]
  ELSE [token |-> token, info |-> src.exp,
        calls |-> <<Call("getTokenInfoFromRPC", token), Call("getTokenInfo", token)>>]

\* A faulty merge that gives every flow the first lookup's metadata.
EnrichFlowFirstResult(flow, results) ==
  LET hit == results
      info == IF hit = <<>> THEN None ELSE hit[1].info
      F(f) == IF info = None THEN NULL ELSE IF Truthy(info[1][f]) THEN info[1][f] ELSE NULL
  IN [token |-> flow.token, from |-> flow.from, to |-> flow.to, amount |-> flow.amount,
      symbol |-> F("symbol"), name |-> F("name"), decimals |-> F("decimals")]

\* enrichedTokenFlows: each flow with the metadata found for its token.
EnrichFlow(flow, results) ==
  LET hit == SelectSeq(results, LAMBDA r : r.token = flow.token)
      info == IF hit = <<>> THEN None ELSE hit[1].info
      F(f) == IF info = None THEN NULL ELSE IF Truthy(info[1][f]) THEN info[1][f] ELSE NULL
  IN [token |-> flow.token, from |-> flow.from, to |-> flow.to, amount |-> flow.amount,
      symbol |-> F("symbol"), name |-> F("name"), decimals |-> F("decimals")]

\* The report printed at the end of Extract converts values with BigInt:
\* the first three internal transactions and the first five token flows
\* that have decimals.
DisplayThrows(internalTxs, flows) ==
  \/ \E i \in 1..Min(3, Len(internalTxs)) :
       \/ BigIntThrows(OrElse(internalTxs[i].value, "0"))
       \/ internalTxs[i].from = NULL
       \/ internalTxs[i].to = NULL
  \/ \E i \in 1..Min(5, Len(flows)) :
       Truthy(flows[i].decimals) /\ BigIntThrows(flows[i].amount)

\* A faulty flag that compares the ratio of the two prices with both
\* thresholds.
IsAbnormalByRatio(tx, ref, unit) ==
  ref > 0 /\ (tx > ref * 3 \/ tx * 1000 < ref)

\* gasContext.isAbnormal, prices counted in 1/unit Gwei: the reference price
\* is known and the transaction's price is more than three times the
\* reference or less than 0.001 Gwei.
IsAbnormalAt(tx, ref, unit) ==
  ref > 0 /\ (tx > ref * 3 \/ tx * 1000 < unit)

\* gasContext.isAbnormal, prices in Gwei.
IsAbnormal(txGwei, refGwei) == IsAbnormalAt(txGwei, refGwei, 1)

(***************************************************************************)
(* The context and the merge of a node's partial update into it.           *)
(***************************************************************************)
EmptyMap == <<>>

InitialContext ==
  [rawTx |-> None, decodedCalls |-> <<>>, tokenFlows |-> <<>>,
   etherscanInternalTxs |-> <<>>, tenderlyCallTrace |-> None, internalTxs |-> <<>>,
   gasContext |-> None, callTraceEnrichment |-> EmptyMap, flattenedCalls |-> <<>>,
   callTraceExplanation |-> NULL, draftExplanation |-> NULL,
   verificationResult |-> None, finalReport |-> None, error |-> NULL]

\* A faulty merge that keeps only the keys of the update.
MergeReplacingContext(state, upd) ==
  [f \in DOMAIN state |-> IF f \in DOMAIN upd THEN upd[f] ELSE InitialContext[f]]

\* Each key of the update replaces the context's value; other keys stay.
Merge(state, upd) ==
  [f \in DOMAIN state |-> IF f \in DOMAIN upd THEN upd[f] ELSE state[f]]

NoUpdate == <<>>

(***************************************************************************)
(* Node 1: Extract.  m, tx: the mandatory fetch; bytecodeOk: the bytecode  *)
(* check of the destination answered; abi: the explorer's ABI; tr: the     *)
(* trace service's result; ex: the explorer's internal transactions; gas:  *)
(* the reference price; tok: the metadata sources of each token.           *)
(***************************************************************************)
ExtractError == "Failed to extract transaction data"

\* A faulty decoder without the fallback: an ABI that does not decode the
\* calldata leaves no decoded call.
DecodedCallsWithoutFallback(tx, fetchAbi, abi) ==
  LET selector == SelectorOf(tx.input)
  IN IF tx.to = NULL THEN <<>>
     ELSE IF fetchAbi /\ abi = "decodes"
     THEN <<[contract |-> tx.to, functionName |-> "abi:transfer"]>>
     ELSE IF fetchAbi /\ abi = "mismatch" THEN <<>>
     ELSE IF selector # "0x"
     THEN <<[contract |-> tx.to, functionName |-> OrElse(SignatureOf(selector), selector)]>>
     ELSE <<>>

\* decodedCalls: the function decoded with the ABI when the ABI was fetched
\* and decodes the calldata, else the selector's signature or the selector.
DecodedCalls(tx, fetchAbi, abi) ==
  LET selector == SelectorOf(tx.input)
      decodedFunction == fetchAbi /\ abi = "decodes"
  IN IF tx.to = NULL THEN <<>>
     ELSE IF decodedFunction
     THEN <<[contract |-> tx.to, functionName |-> "abi:transfer"]>>
     ELSE IF selector # "0x"
     THEN <<[contract |-> tx.to, functionName |-> OrElse(SignatureOf(selector), selector)]>>
     ELSE <<>>

\* A faulty trace section announcing the trace after the call.
TraceSectionStartingLate(c) ==
  IF c.useTenderly
  THEN <<Call("traceTransaction", "")>> \o Emit(c.sink, "tenderly_start") \o
       Emit(c.sink, "tenderly_done")
  ELSE Emit(c.sink, "tenderly_done")

\* The calls and events of the trace section of extractNode; c.useTenderly:
\* the trace service is enabled and its endpoint configured.
TraceSection(c) ==
  IF c.useTenderly
  THEN Emit(c.sink, "tenderly_start") \o <<Call("traceTransaction", "")>> \o
       Emit(c.sink, "tenderly_done")
  ELSE Emit(c.sink, "tenderly_done")

ExtractNode(state, c, m, tx, bytecodeOk, abi, tr, ex, gas, tok) ==
  LET fetchLog == <<Call("getTransaction", ""), Call("getTransactionReceipt", "")>>
      receiptLog == <<Call("getTransactionReceipt", "")>>
      failed == [error |-> ExtractError]
  IN
  IF m = "tx_failed" THEN [upd |-> failed, log |-> fetchLog]
  ELSE IF m = "receipt_failed" THEN [upd |-> failed, log |-> fetchLog \o receiptLog]
  ELSE
  LET tokenFlows == ExtractTokenFlows(tx.logs)
      selector == SelectorOf(tx.input)
      hasTo == tx.to # NULL
      labelLog == GetAddressLabel(tx.from).calls \o
                  (IF hasTo THEN GetAddressLabel(tx.to).calls ELSE <<>>)
      isToContract == hasTo /\ bytecodeOk /\ tx.to \in ContractAddrs
      bytecodeLog == IF hasTo THEN <<Call("getBytecode", tx.to)>> ELSE <<>>
      fetchAbi == isToContract /\ hasTo /\ Truthy(tx.input) /\ tx.input # "0x"
      abiLog == IF fetchAbi
                THEN <<Call("getContractABI", tx.to), Call("getContractSource", tx.to)>>
                ELSE <<>>
      \* the trace service
      tenderlyCallTrace == IF c.useTenderly THEN tr ELSE None
      tenderlyInternalTxs ==
        IF tenderlyCallTrace # None /\ Len(tenderlyCallTrace[1].trace) > 0
        THEN LET allCalls == ExtractAllCallsFromTrace(tenderlyCallTrace[1].trace[1])
             IN [i \in 1..Len(allCalls) |-> TenderlyItx(allCalls[i])]
        ELSE <<>>
      tenderlyLog == TraceSection(c)
      \* the explorer
      etherscanInternalTxs == ex
      internalTxs == FuseInternalTxs(tenderlyInternalTxs, etherscanInternalTxs)
      explorerLog == <<Call("getInternalTransactions", ""), Call("getGasPriceAtBlock", "")>> \o
                     Emit(c.sink, "etherscan_done")
      \* token metadata
      uniqueTokens == Unique([i \in 1..Len(tokenFlows) |-> tokenFlows[i].token])
      looked == Take(uniqueTokens, TOKEN_LOOKUPS)
      tokenInfoResults == [i \in 1..Len(looked) |-> TokenLookup(looked[i], tok[looked[i]])]
      tokenLog == Concat([i \in 1..Len(looked) |-> tokenInfoResults[i].calls])
      enrichedTokenFlows ==
        [i \in 1..Len(tokenFlows) |-> EnrichFlow(tokenFlows[i], tokenInfoResults)]
      gasContext == [currentPrice |-> gas, isAbnormal |-> IsAbnormal(tx.gasPrice, gas)]
      decodedCalls == DecodedCalls(tx, fetchAbi, abi)
      formattedInternalTxs == FormattedInternalTxs(internalTxs)
      fullLog == fetchLog \o receiptLog \o Emit(c.sink, "rpc_done") \o
                 Emit(c.sink, "etherscan_start") \o labelLog \o bytecodeLog \o abiLog \o
                 tenderlyLog \o explorerLog \o tokenLog
  IN
  IF DisplayThrows(internalTxs, enrichedTokenFlows)
  THEN [upd |-> failed, log |-> fullLog]
  ELSE [upd |-> [rawTx |-> Some(tx), tokenFlows |-> enrichedTokenFlows,
                 decodedCalls |-> decodedCalls,
                 etherscanInternalTxs |-> formattedInternalTxs,
                 tenderlyCallTrace |-> tenderlyCallTrace,
                 internalTxs |-> formattedInternalTxs,
                 gasContext |-> Some(gasContext)],
        log |-> fullLog]

(***************************************************************************)
(* Node 2: Call-Trace Enrichment.                                          *)
(***************************************************************************)
MAX_ADDRESSES_TO_ENRICH == 20

\* toLowerCase on the addresses of the model.
ToLower(a) == IF a = "A1" THEN "a1" ELSE a

\* A faulty collection that keeps the letter case.
ExtractUniqueAddressesKeepingCase(calls) ==
  Unique(Concat([i \in 1..Len(calls) |->
    (IF Truthy(calls[i].from) THEN <<calls[i].from>> ELSE <<>>) \o
    (IF Truthy(calls[i].to) THEN <<calls[i].to>> ELSE <<>>)]))

\* extractUniqueAddressesFromCalls: from, then to, of every call, lower-cased,
\* first occurrences in order.
ExtractUniqueAddressesFromCalls(calls) ==
  Unique(Concat([i \in 1..Len(calls) |->
    (IF Truthy(calls[i].from) THEN <<ToLower(calls[i].from)>> ELSE <<>>) \o
    (IF Truthy(calls[i].to) THEN <<ToLower(calls[i].to)>> ELSE <<>>)]))

\* A faulty flattening that does not hand the counter on: every subtree
\* numbers its entries from 0 again.
RECURSIVE FlattenRestartingIndex(_, _, _)
FlattenRestartingIndex(call, depth, n) ==
  LET self == [depth |-> depth, index |-> n, type |-> OrElse(call.type, "CALL"),
               from |-> call.from, to |-> call.to, value |-> OrElse(call.value, "0")]
  IN [result |-> <<self>> \o
                 Concat([i \in 1..Len(call.calls) |->
                           FlattenRestartingIndex(call.calls[i], depth + 1, 0).result]),
      n |-> n + 1]

\* A faulty flattening that gives the entries of a subtree the depth of
\* their parent.
RECURSIVE FlattenKeepingDepth(_, _, _)
FlattenKeepingDepth(call, depth, n) ==
  LET self == [depth |-> depth, index |-> n, type |-> OrElse(call.type, "CALL"),
               from |-> call.from, to |-> call.to, value |-> OrElse(call.value, "0")]
      below == Concat([i \in 1..Len(call.calls) |->
                         FlattenKeepingDepth(call.calls[i], depth, 0).result])
  IN [result |-> <<self>> \o [i \in 1..Len(below) |-> [below[i] EXCEPT !.index = n + i]],
      n |-> n + 1 + Len(below)]

\* flattenCallTrace: the node with the running index, then each subtree one
\* level deeper; n is the shared counter startIndex.n.  The result carries
\* the counter after the traversal.
RECURSIVE FlattenCallTrace(_, _, _), FlattenSubs(_, _, _)
FlattenCallTrace(call, depth, n) ==
  LET self == [depth |-> depth, index |-> n, type |-> OrElse(call.type, "CALL"),
               from |-> call.from, to |-> call.to, value |-> OrElse(call.value, "0")]
      subs == FlattenSubs(call.calls, depth + 1, n + 1)
  IN [result |-> <<self>> \o subs.result, n |-> subs.n]
FlattenSubs(calls, depth, n) ==
  IF calls = <<>> THEN [result |-> <<>>, n |-> n]
  ELSE LET first == FlattenCallTrace(Head(calls), depth, n)
           rest == FlattenSubs(Tail(calls), depth, first.n)
       IN [result |-> first.result \o rest.result, n |-> rest.n]

\* A faulty fallback that numbers the entries from one.
FlatFallbackOneBased(internalTxs) ==
  [i \in 1..Len(internalTxs) |->
     [depth |-> 0, index |-> i, type |-> OrElse(internalTxs[i].type, "CALL"),
      from |-> internalTxs[i].from, to |-> internalTxs[i].to,
      value |-> OrElse(internalTxs[i].value, "0")]]

\* The flat fallback: the fused list as depth-0 entries.
FlatFallback(internalTxs) ==
  [i \in 1..Len(internalTxs) |->
     [depth |-> 0, index |-> i - 1, type |-> OrElse(internalTxs[i].type, "CALL"),
      from |-> internalTxs[i].from, to |-> internalTxs[i].to,
      value |-> OrElse(internalTxs[i].value, "0")]]

UnknownRecord == [label |-> NULL, isContract |-> FALSE, abi |-> NULL, source |-> NULL]

\* What goes wrong while an address is looked up: nothing; a lookup throws
\* into the loop's catch; the bytecode read fails inside isContract, which
\* answers false; the explorer fails inside getContractABI and
\* getContractSource, which answer null.
Faults == {"none", "throws", "bytecode", "explorer"}

NoFailures == [throws |-> {}, bytecode |-> {}, explorer |-> {}]

FaultOf(failing, a) ==
  IF a \in failing.throws THEN "throws"
  ELSE IF a \in failing.bytecode THEN "bytecode"
  ELSE IF a \in failing.explorer THEN "explorer"
  ELSE "none"

\* A faulty loop body that asks the explorer whatever the bytecode check said.
EnrichAddressFetchingAlways(addr, fault) ==
  IF fault = "throws"
  THEN [info |-> UnknownRecord, calls |-> <<Call("getAddressLabel", addr)>>]
  ELSE LET isContractAddr == fault # "bytecode" /\ addr \in ContractAddrs
           verified == isContractAddr /\ addr = "b2" /\ fault # "explorer"
       IN [info |-> [label |-> KnownLabel(addr), isContract |-> isContractAddr,
                     abi |-> IF verified THEN "abi" ELSE NULL,
                     source |-> IF verified THEN "source" ELSE NULL],
           calls |-> <<Call("getAddressLabel", addr), Call("getBytecode", addr),
                       Call("getContractABI", addr), Call("getContractSource", addr)>>]

\* A faulty catch branch that keeps the label found before the failure.
EnrichAddressKeepingLabel(addr, fault) ==
  LET isContractAddr == fault \notin {"throws", "bytecode"} /\ addr \in ContractAddrs
      verified == isContractAddr /\ addr = "b2" /\ fault # "explorer"
  IN [info |-> [label |-> KnownLabel(addr), isContract |-> isContractAddr,
                abi |-> IF verified THEN "abi" ELSE NULL,
                source |-> IF verified THEN "source" ELSE NULL],
      calls |-> <<Call("getAddressLabel", addr)>> \o
                (IF fault = "throws" THEN <<>> ELSE <<Call("getBytecode", addr)>>) \o
                (IF isContractAddr
                 THEN <<Call("getContractABI", addr), Call("getContractSource", addr)>>
                 ELSE <<>>)]

\* One address: label from the offline store, bytecode check, and ABI and
\* source for contracts only.  A lookup that throws leaves the unknown record.
EnrichAddress(addr, fault) ==
  IF fault = "throws"
  THEN [info |-> UnknownRecord, calls |-> GetAddressLabel(addr).calls]
  ELSE LET isContractAddr == fault # "bytecode" /\ addr \in ContractAddrs
           verified == isContractAddr /\ addr = "b2" /\ fault # "explorer"
       IN [info |-> [label |-> GetAddressLabel(addr).label, isContract |-> isContractAddr,
                     abi |-> IF verified THEN "abi" ELSE NULL,
                     source |-> IF verified THEN "source" ELSE NULL],
           calls |-> GetAddressLabel(addr).calls \o <<Call("getBytecode", addr)>> \o
                     (IF isContractAddr
                      THEN <<Call("getContractABI", addr), Call("getContractSource", addr)>>
                      ELSE <<>>)]

HasTraceRoot(state) ==
  state.tenderlyCallTrace # None /\ Len(state.tenderlyCallTrace[1].trace) > 0

\* failing: the addresses whose lookups fail, by kind of failure.
CallTraceEnrichNode(state, c, failing) ==
  IF state.error # NULL \/ state.rawTx = None THEN [upd |-> NoUpdate, log |-> <<>>]
  ELSE
  LET calls == IF HasTraceRoot(state)
               THEN ExtractAllCallsFromTrace(state.tenderlyCallTrace[1].trace[1])
               ELSE [i \in 1..Len(state.internalTxs) |->
                       [from |-> state.internalTxs[i].from, to |-> state.internalTxs[i].to,
                        value |-> state.internalTxs[i].value,
                        type |-> state.internalTxs[i].type]]
  IN
  IF Len(calls) = 0
  THEN [upd |-> [flattenedCalls |-> <<>>, callTraceEnrichment |-> EmptyMap], log |-> <<>>]
  ELSE
  LET addresses == ExtractUniqueAddressesFromCalls(calls)
      toEnrich == Take(addresses, MAX_ADDRESSES_TO_ENRICH)
      \* the addresses are lower-cased and distinct: each key is written once
      enrichment ==
        [a \in Range(toEnrich) |-> EnrichAddress(a, FaultOf(failing, a)).info]
      flattenedCalls ==
        IF HasTraceRoot(state)
        THEN FlattenCallTrace(state.tenderlyCallTrace[1].trace[1], 0, 0).result
        ELSE FlatFallback(state.internalTxs)
  IN [upd |-> [callTraceEnrichment |-> enrichment, flattenedCalls |-> flattenedCalls],
      log |-> Emit(c.sink, "calltrace_enrich_start") \o
              Concat([i \in 1..Len(toEnrich) |->
                        EnrichAddress(toEnrich[i], FaultOf(failing, toEnrich[i])).calls]) \o
              EmitWith(c.sink, "calltrace_enrich_done", NumberText(Len(toEnrich)))]

(***************************************************************************)
(* Node 3: Call-Trace Explanation.  reply: the collaborator's text, NULL   *)
(* when the call fails.                                                    *)
(***************************************************************************)
\* A faulty step that turns the collaborator's failure into the error of
\* the run.
CallTraceExplainNodeFatal(state, c, reply) ==
  IF state.error # NULL \/ state.rawTx = None THEN [upd |-> NoUpdate, log |-> <<>>]
  ELSE IF Len(state.flattenedCalls) = 0
  THEN [upd |-> [callTraceExplanation |-> "No call trace available."], log |-> <<>>]
  ELSE IF reply = NULL
  THEN [upd |-> [error |-> "Failed to explain call trace"],
        log |-> Emit(c.sink, "calltrace_explain_start") \o <<Call("llm.invoke", "explain")>>]
  ELSE [upd |-> [callTraceExplanation |-> reply],
        log |-> Emit(c.sink, "calltrace_explain_start") \o <<Call("llm.invoke", "explain")>> \o
                Emit(c.sink, "calltrace_explain_done")]

\* callTraceExplainNode.
CallTraceExplainNode(state, c, reply) ==
  IF state.error # NULL \/ state.rawTx = None THEN [upd |-> NoUpdate, log |-> <<>>]
  ELSE IF Len(state.flattenedCalls) = 0
  THEN [upd |-> [callTraceExplanation |-> "No call trace available."], log |-> <<>>]
  ELSE IF reply = NULL
  THEN [upd |-> [callTraceExplanation |-> "Failed to explain call trace"],
        log |-> Emit(c.sink, "calltrace_explain_start") \o <<Call("llm.invoke", "explain")>>]
  ELSE [upd |-> [callTraceExplanation |-> reply],
        log |-> Emit(c.sink, "calltrace_explain_start") \o <<Call("llm.invoke", "explain")>> \o
                Emit(c.sink, "calltrace_explain_done")]

(***************************************************************************)
(* The pattern classifier.                                                 *)
(***************************************************************************)
\* The numeric value of the amounts of the model.
AmountOf(s) == IF s = "0x64" THEN 100 ELSE 0

\* detectArbitrage and detectSandwich convert every flow's amount.
PatternThrows(flows) == \E i \in 1..Len(flows) : BigIntThrows(flows[i].amount)

RECURSIVE NetFlow(_, _, _)
NetFlow(flows, token, sender) ==
  IF flows = <<>> THEN 0
  ELSE LET f == Head(flows)
           amt == IF ToLower(f.token) = token THEN AmountOf(f.amount) ELSE 0
       IN (IF ToLower(f.to) = sender THEN amt ELSE 0)
          - (IF ToLower(f.from) = sender THEN amt ELSE 0)
          + NetFlow(Tail(flows), token, sender)

IdentifyMEVPattern(tx, flows) ==
  LET sender == ToLower(tx.from)
      tokens == { ToLower(flows[i].token) : i \in 1..Len(flows) }
      hasProfit == \E t \in tokens : NetFlow(flows, t, sender) > 0
      largeSwap == Len(flows) >= 2 /\
                   \E i \in 1..Len(flows) : AmountOf(flows[i].amount) > 10^20
  IN IF hasProfit /\ Cardinality(tokens) >= 2 THEN "arbitrage"
     ELSE IF largeSwap THEN "sandwich"
     ELSE "unknown"

(***************************************************************************)
(* Node 4: Draft.  reply: the collaborator's text, NULL when it fails.     *)
(***************************************************************************)
DraftError == "Failed to generate explanation"

\* buildAnalysisPrompt slices from and to of the first 15 internal calls.
PromptThrows(state) ==
  \E i \in 1..Min(15, Len(state.internalTxs)) :
    state.internalTxs[i].from = NULL \/ state.internalTxs[i].to = NULL

\* A faulty node that calls the sink without testing that one is bound:
\* without a sink the call throws inside the try block.
DraftAttemptCallingSink(state, c, reply) ==
  IF ~c.sink THEN [upd |-> [error |-> DraftError], log |-> <<>>]
  ELSE IF PatternThrows(state.tokenFlows) \/ PromptThrows(state)
  THEN [upd |-> [error |-> DraftError], log |-> Emit(c.sink, "draft_start")]
  ELSE IF reply = NULL
  THEN [upd |-> [error |-> DraftError],
        log |-> Emit(c.sink, "draft_start") \o <<Call("llm.invoke", "draft")>>]
  ELSE [upd |-> [draftExplanation |-> reply],
        log |-> Emit(c.sink, "draft_start") \o <<Call("llm.invoke", "draft")>> \o
                Emit(c.sink, "draft_done")]

\* A faulty node whose catch returns the transaction as unknown.
DraftAttemptResettingTx(state, c, reply) ==
  IF PatternThrows(state.tokenFlows) \/ PromptThrows(state)
  THEN [upd |-> [error |-> DraftError, rawTx |-> None],
        log |-> Emit(c.sink, "draft_start")]
  ELSE IF reply = NULL
  THEN [upd |-> [error |-> DraftError, rawTx |-> None],
        log |-> Emit(c.sink, "draft_start") \o <<Call("llm.invoke", "draft")>>]
  ELSE [upd |-> [draftExplanation |-> reply],
        log |-> Emit(c.sink, "draft_start") \o <<Call("llm.invoke", "draft")>> \o
                Emit(c.sink, "draft_done")]

\* A faulty node without the catch: a failed collaborator call leaves the
\* node as an exception.
DraftAttemptUncaught(state, c, reply) ==
  IF PatternThrows(state.tokenFlows) \/ PromptThrows(state)
  THEN [upd |-> [error |-> DraftError], log |-> Emit(c.sink, "draft_start")]
  ELSE IF reply = NULL
  THEN [upd |-> NoUpdate,
        log |-> Emit(c.sink, "draft_start") \o <<Call("llm.invoke", "draft")>>,
        throws |-> TRUE]
  ELSE [upd |-> [draftExplanation |-> reply],
        log |-> Emit(c.sink, "draft_start") \o <<Call("llm.invoke", "draft")>> \o
                Emit(c.sink, "draft_done")]

\* The node after its guard: draft_start, then the try block.
DraftAttempt(state, c, reply) ==
  IF PatternThrows(state.tokenFlows) \/ PromptThrows(state)
  THEN [upd |-> [error |-> DraftError], log |-> Emit(c.sink, "draft_start")]
  ELSE IF reply = NULL
  THEN [upd |-> [error |-> DraftError],
        log |-> Emit(c.sink, "draft_start") \o <<Call("llm.invoke", "draft")>>]
  ELSE [upd |-> [draftExplanation |-> reply],
        log |-> Emit(c.sink, "draft_start") \o <<Call("llm.invoke", "draft")>> \o
                Emit(c.sink, "draft_done")]

\* A faulty node without the guard: with no transaction in the context the
\* try block throws on the first access to it, after draft_start.
DraftNodeUnguarded(state, c, reply) ==
  IF state.rawTx = None
  THEN [upd |-> [error |-> DraftError], log |-> Emit(c.sink, "draft_start")]
  ELSE DraftAttempt(state, c, reply)

DraftNode(state, c, reply) ==
  IF state.error # NULL \/ state.rawTx = None
  THEN [upd |-> [error |-> OrElse(state.error, "No transaction data available")],
        log |-> <<>>]
  ELSE DraftAttempt(state, c, reply)

(***************************************************************************)
(* Node 5: Verify.  reply: the collaborator's reply, None when it fails.   *)
(***************************************************************************)
Passed == [passed |-> TRUE, issues |-> <<>>]

\* buildGroundTruth formats the flows sent and received by the sender.
GroundTruthThrows(state) ==
  LET tx == state.rawTx[1]
  IN \E i \in 1..Len(state.tokenFlows) :
       LET f == state.tokenFlows[i]
       IN /\ ToLower(f.from) = ToLower(tx.from) \/ ToLower(f.to) = ToLower(tx.from)
          /\ Truthy(f.decimals)
          /\ BigIntThrows(f.amount)

ParseVerifyReply(r) ==
  LET passed == r.startsOK \/ r.noError
      bullets == SelectSeq(r.lines, LAMBDA l : l.bullet)
  IN [passed |-> passed,
      issues |-> IF passed THEN <<>> ELSE [i \in 1..Len(bullets) |-> bullets[i].text]]

\* A faulty try block whose catch reports the failure as the run's error.
VerifyAttemptBlocking(state, c, reply) ==
  IF GroundTruthThrows(state)
  THEN [upd |-> [error |-> "Failed to verify"], log |-> Emit(c.sink, "verify_start")]
  ELSE IF reply = None
  THEN [upd |-> [error |-> "Failed to verify"],
        log |-> Emit(c.sink, "verify_start") \o <<Call("llm.invoke", "verify")>>]
  ELSE [upd |-> [verificationResult |-> Some(ParseVerifyReply(reply[1]))],
        log |-> Emit(c.sink, "verify_start") \o <<Call("llm.invoke", "verify")>> \o
                Emit(c.sink, "verify_done")]

\* The node with verification enabled: verify_start, then the try block.
VerifyAttempt(state, c, reply) ==
  IF GroundTruthThrows(state)
  THEN [upd |-> [verificationResult |-> Some(Passed)], log |-> Emit(c.sink, "verify_start")]
  ELSE IF reply = None
  THEN [upd |-> [verificationResult |-> Some(Passed)],
        log |-> Emit(c.sink, "verify_start") \o <<Call("llm.invoke", "verify")>>]
  ELSE [upd |-> [verificationResult |-> Some(ParseVerifyReply(reply[1]))],
        log |-> Emit(c.sink, "verify_start") \o <<Call("llm.invoke", "verify")>> \o
                Emit(c.sink, "verify_done")]

\* A faulty node that reports verify_done when verification is disabled,
\* the way Extract reports tenderly_done for a disabled trace service.
VerifyNodeDoneWhenDisabled(state, c, reply) ==
  IF state.error # NULL \/ ~Truthy(state.draftExplanation) \/ state.rawTx = None
  THEN [upd |-> NoUpdate, log |-> <<>>]
  ELSE IF ~c.enableVerification
  THEN [upd |-> [verificationResult |-> Some(Passed)], log |-> Emit(c.sink, "verify_done")]
  ELSE VerifyAttempt(state, c, reply)

VerifyNode(state, c, reply) ==
  IF state.error # NULL \/ ~Truthy(state.draftExplanation) \/ state.rawTx = None
  THEN [upd |-> NoUpdate, log |-> <<>>]
  ELSE IF ~c.enableVerification
  THEN [upd |-> [verificationResult |-> Some(Passed)], log |-> <<>>]
  ELSE VerifyAttempt(state, c, reply)

(***************************************************************************)
(* Node 6: Output.                                                         *)
(***************************************************************************)
\* extractSteps: the text of the numbered lines of the narrative.
ExtractSteps(explanation) == IF explanation = "1. swap" THEN <<"swap">> ELSE <<>>

\* `Error: ${state.error}` for the error texts the nodes produce.
ErrorSummary(error) ==
  IF error = ExtractError THEN "Error: Failed to extract transaction data"
  ELSE IF error = DraftError THEN "Error: Failed to generate explanation"
  ELSE "Error: No transaction data available"

\* A faulty error report whose summary leaves the error text out.
ErrorReportWithoutText(error) ==
  [summary |-> "Error: ", mevType |-> "unknown", steps |-> <<>>,
   tokenFlows |-> <<>>, technicalDetails |-> EmptyMap]

ErrorReport(error) ==
  [summary |-> ErrorSummary(error), mevType |-> "unknown", steps |-> <<>>,
   tokenFlows |-> <<>>, technicalDetails |-> EmptyMap]

\* The report of a run without error; throws when the context holds no
\* transaction or the classifier cannot convert an amount.
SuccessReport(state, c) ==
  IF state.rawTx = None \/ PatternThrows(state.tokenFlows)
  THEN [upd |-> NoUpdate, log |-> <<>>, throws |-> TRUE]
  ELSE
  LET tx == state.rawTx[1]
      finalReport ==
        [summary |-> OrElse(state.draftExplanation, "No explanation generated"),
         mevType |-> IdentifyMEVPattern(tx, state.tokenFlows),
         steps |-> ExtractSteps(OrElse(state.draftExplanation, "")),
         tokenFlows |-> state.tokenFlows,
         technicalDetails |-> [from |-> tx.from, to |-> tx.to],
         verification |-> state.verificationResult,
         callTraceExplanation |-> state.callTraceExplanation,
         tenderlyCallTrace |-> state.tenderlyCallTrace,
         etherscanInternalTxs |-> state.etherscanInternalTxs]
  IN [upd |-> [finalReport |-> Some(finalReport)], log |-> Emit(c.sink, "done"),
      throws |-> FALSE]

\* A faulty node that builds the success report whether or not the run failed.
OutputNodeUnguarded(state, c) == SuccessReport(state, c)

OutputNode(state, c) ==
  IF Truthy(state.error)
  THEN [upd |-> [finalReport |-> Some(ErrorReport(state.error))],
        log |-> Emit(c.sink, "done"), throws |-> FALSE]
  ELSE SuccessReport(state, c)

(***************************************************************************)
(* The run.                                                                *)
(***************************************************************************)
\* The order of the graph's nodes.
NextStage(stage) ==
  CASE stage = "extract" -> "enrich"
    [] stage = "enrich" -> "explain"
    [] stage = "explain" -> "draft"
    [] stage = "draft" -> "verify"
    [] stage = "verify" -> "output"
    [] stage = "output" -> "end"

\* analyzeTx binds the sink when one is given; the analyze_transaction tool
\* wraps analyzeTx and passes its own callback on.
\* sinkFails: the events on which the bound sink throws; the sink of these
\* runs never does.
Configs ==
  { c \in [useTenderly : BOOLEAN, enableVerification : BOOLEAN, sink : BOOLEAN,
            entry : {"analyzeTx", "tool"}, sinkFails : {{}}] : c.entry = "tool" => c.sink }

\* The events a stage sends inside its try block.
SentInTry(stage) ==
  CASE stage = "extract" -> {"rpc_done", "etherscan_start", "tenderly_start",
                             "tenderly_done", "etherscan_done"}
    [] stage = "explain" -> {"calltrace_explain_done"}
    [] stage = "draft" -> {"draft_done"}
    [] stage = "verify" -> {"verify_done"}
    [] OTHER -> {}

\* What the catch block of a stage returns.
CatchUpdate(stage) ==
  CASE stage = "extract" -> [error |-> ExtractError]
    [] stage = "explain" -> [callTraceExplanation |-> "Failed to explain call trace"]
    [] stage = "draft" -> [error |-> DraftError]
    [] stage = "verify" -> [verificationResult |-> Some(Passed)]
    [] OTHER -> NoUpdate

NodeThrows(r) == "throws" \in DOMAIN r /\ r.throws

\* getProgress()?.(event) calls the sink synchronously: the result r of a
\* stage when the sink throws on the events c.sinkFails.  The stage stops at
\* the first such event; inside the try block its catch block answers,
\* outside the node throws.
Delivered(r, c, stage) ==
  LET bad == { i \in 1..Len(r.log) : IsEvent(r.log[i]) /\ r.log[i].n \in c.sinkFails }
  IN IF bad = {}
     THEN [upd |-> r.upd, log |-> r.log, throws |-> NodeThrows(r)]
     ELSE LET first == CHOOSE i \in bad : \A j \in bad : i <= j
              sent == SubSeq(r.log, 1, first - 1)
          IN IF r.log[first].n \in SentInTry(stage)
             THEN [upd |-> CatchUpdate(stage), log |-> sent, throws |-> FALSE]
             ELSE [upd |-> NoUpdate, log |-> sent, throws |-> TRUE]

\* Where the run goes after a stage: on, or out with the node's exception.
AfterStage(stage, c, r) ==
  IF r.throws THEN (IF c.entry = "tool" THEN "tool_catch" ELSE "raised")
  ELSE NextStage(stage)

NothingReturned == [fetched |-> FALSE, completed |-> FALSE, trace |-> None,
                    explorer |-> <<>>, failed |-> {}, tx |-> None]

Init ==
  /\ pc = "extract"
  /\ cfg \in Configs
  /\ ctx = InitialContext
  /\ log = <<>>
  /\ ret = NothingReturned

TokensOf(tx) == { tx.logs[i].address : i \in 1..Len(tx.logs) }
TokenSources == [rpc : RpcTokenInfos, exp : ExplorerTokenInfos]

Extract ==
  /\ pc = "extract"
  /\ \E m \in MandatoryOutcomes, tx \in TxKinds :
     \E bytecodeOk \in BOOLEAN, abi \in AbiOutcomes, tr \in TraceResults,
        ex \in ExplorerLists, gas \in GasRefs, tok \in [TokensOf(tx) -> TokenSources] :
       \E r \in {Delivered(ExtractNode(ctx, cfg, m, tx, bytecodeOk, abi, tr, ex, gas, tok),
                            cfg, "extract")} :
          /\ ctx' = Merge(ctx, r.upd)
          /\ log' = log \o r.log
          /\ pc' = AfterStage("extract", cfg, r)
          /\ ret' = IF "rawTx" \in DOMAIN r.upd
                    THEN [fetched |-> TRUE, completed |-> TRUE,
                          trace |-> IF cfg.useTenderly THEN tr ELSE None,
                          explorer |-> ex, failed |-> {}, tx |-> Some(tx)]
                    ELSE [ret EXCEPT !.fetched = (m = "ok"),
                                     !.tx = IF m = "tx_failed" THEN None ELSE Some(tx)]
  /\ UNCHANGED cfg

CallTraceEnrich ==
  /\ pc = "enrich"
  /\ \E failing \in {NoFailures} :
       \E r \in {Delivered(CallTraceEnrichNode(ctx, cfg, failing), cfg, "enrich")} :
          /\ ctx' = Merge(ctx, r.upd)
          /\ log' = log \o r.log
          /\ pc' = AfterStage("enrich", cfg, r)
  /\ UNCHANGED <<cfg, ret>>

CallTraceExplain ==
  /\ pc = "explain"
  /\ \E reply \in ExplainReplies :
       \E r \in {Delivered(CallTraceExplainNode(ctx, cfg, reply), cfg, "explain")} :
          /\ ctx' = Merge(ctx, r.upd)
          /\ log' = log \o r.log
          /\ pc' = AfterStage("explain", cfg, r)
          /\ ret' = IF reply = NULL /\ Call("llm.invoke", "explain") \in Range(r.log)
                    THEN [ret EXCEPT !.failed = @ \cup {"explain"}] ELSE ret
  /\ UNCHANGED cfg

Draft ==
  /\ pc = "draft"
  /\ \E reply \in DraftReplies :
       \E r \in {Delivered(DraftNode(ctx, cfg, reply), cfg, "draft")} :
          /\ ctx' = Merge(ctx, r.upd)
          /\ log' = log \o r.log
          /\ pc' = AfterStage("draft", cfg, r)
          /\ ret' = IF reply = NULL /\ Call("llm.invoke", "draft") \in Range(r.log)
                    THEN [ret EXCEPT !.failed = @ \cup {"draft"}] ELSE ret
  /\ UNCHANGED cfg

Verify ==
  /\ pc = "verify"
  /\ \E reply \in {None} \cup { Some(v) : v \in VerifyReplies } :
       \E r \in {Delivered(VerifyNode(ctx, cfg, reply), cfg, "verify")} :
          /\ ctx' = Merge(ctx, r.upd)
          /\ log' = log \o r.log
          /\ pc' = AfterStage("verify", cfg, r)
          /\ ret' = IF reply = None /\ Call("llm.invoke", "verify") \in Range(r.log)
                    THEN [ret EXCEPT !.failed = @ \cup {"verify"}] ELSE ret
  /\ UNCHANGED cfg

\* The last node; afterwards invoke() resolves with the context, or rejects
\* when the node threw.  The tool wrapper continues with the result.
Output ==
  /\ pc = "output"
  /\ \E r \in {Delivered(OutputNode(ctx, cfg), cfg, "output")} :
        /\ ctx' = Merge(ctx, r.upd)
        /\ log' = log \o r.log
        /\ pc' = IF cfg.entry = "tool" THEN (IF r.throws THEN "tool_catch" ELSE "tool")
                 ELSE IF r.throws THEN "raised" ELSE "done"
  /\ UNCHANGED <<cfg, ret>>

\* createTools.analyzeTransaction after analyzeTx returned: a result with
\* the error field set is reported with a done event; a rejection likewise.
ToolFinish ==
  /\ pc \in {"tool", "tool_catch"}
  /\ log' = log \o (IF pc = "tool_catch" \/ Truthy(ctx.error)
                    THEN Emit(cfg.sink, "done") ELSE <<>>)
  /\ pc' = "done"
  /\ UNCHANGED <<cfg, ctx, ret>>

Next ==
  \/ Extract
  \/ CallTraceEnrich
  \/ CallTraceExplain
  \/ Draft
  \/ Verify
  \/ Output
  \/ ToolFinish

Spec == Init /\ [][Next]_vars

TypeOK ==
  /\ pc \in {"extract", "enrich", "explain", "draft", "verify", "output", "tool",
             "tool_catch", "raised", "done"}
  /\ cfg \in Configs

(***************************************************************************)
(* Properties of the run.                                                  *)
(***************************************************************************)
\* The names of the events the sink received, in order.
EventNames == [i \in 1..Len(Events) |-> Events[i].n]

Count(n) == Cardinality({ i \in 1..Len(Events) : Events[i].n = n })

\* The stages that announce themselves, with their start and completion events.
Stages == {"etherscan", "tenderly", "calltrace_enrich", "calltrace_explain", "draft", "verify"}

StartOf(stage) ==
  CASE stage = "etherscan" -> "etherscan_start"
    [] stage = "tenderly" -> "tenderly_start"
    [] stage = "calltrace_enrich" -> "calltrace_enrich_start"
    [] stage = "calltrace_explain" -> "calltrace_explain_start"
    [] stage = "draft" -> "draft_start"
    [] stage = "verify" -> "verify_start"

DoneOf(stage) ==
  CASE stage = "etherscan" -> "etherscan_done"
    [] stage = "tenderly" -> "tenderly_done"
    [] stage = "calltrace_enrich" -> "calltrace_enrich_done"
    [] stage = "calltrace_explain" -> "calltrace_explain_done"
    [] stage = "draft" -> "draft_done"
    [] stage = "verify" -> "verify_done"

\* The i-th event completes the stage and no start of that stage came before.
DoneWithoutStartIn(ev, stage, i) ==
  /\ ev[i].n = DoneOf(stage)
  /\ ~\E j \in 1..(i - 1) : ev[j].n = StartOf(stage)

DoneWithoutStart(stage, i) == DoneWithoutStartIn(Events, stage, i)

RunReturned == pc = "done"

\* The number of steps a run can still take from a position.
StepsLeft(at) ==
  CASE at = "extract" -> 7
    [] at = "enrich" -> 6
    [] at = "explain" -> 5
    [] at = "draft" -> 4
    [] at = "verify" -> 3
    [] at = "output" -> 2
    [] at \in {"tool", "tool_catch"} -> 1
    [] at \in {"done", "raised"} -> 0

\* C1: every run ends by returning a final report whose summary is a string,
\* never by raising, whatever the optional collaborators returned: no run
\* raises past analyzeTx, every step brings the run closer to its end, and a
\* returned run holds a report with a non-null summary.
C1_ReportAlwaysProduced ==
  /\ [](/\ pc \notin {"raised", "tool_catch"}
        /\ pc \in {"tool", "done"} =>
             /\ ctx.finalReport # None
             /\ ctx.finalReport[1].summary # NULL
             /\ ctx.finalReport[1].summary \in STRING)
  /\ [][StepsLeft(pc') < StepsLeft(pc)]_vars

\* A returned run in which the trace service was enabled and gave nothing,
\* the explorer gave no internal transactions and no gas reference, and the
\* token metadata was found nowhere.
C1_Witness ==
  /\ RunReturned
  /\ cfg.useTenderly /\ ret.completed /\ ret.trace = None /\ ret.explorer = <<>>
  /\ ctx.gasContext # None /\ ctx.gasContext[1].currentPrice = 0
  /\ Len(ctx.tokenFlows) > 0
  /\ \A i \in 1..Len(ctx.tokenFlows) : ctx.tokenFlows[i].symbol = NULL
  /\ ctx.finalReport # None

\* C2: when Extract has ended, the context's error field is set if and only
\* if the mandatory fetch of the transaction or of its receipt failed.
C2_ErrorIffMandatoryFetchFailed ==
  pc = "enrich" => ((ctx.error # NULL) <=> ~ret.fetched)

\* A run is fully successful when the trace service is enabled and returned a
\* trace, verification is enabled, no stage set the error and every
\* text-generation call answered.
FullySuccessful ==
  /\ cfg.useTenderly /\ cfg.enableVerification
  /\ ret.completed /\ ret.trace # None /\ ret.failed = {}
  /\ ctx.error = NULL /\ Truthy(ctx.draftExplanation)
  /\ Len(ctx.flattenedCalls) > 0

CanonicalSequence ==
  <<"rpc_done", "etherscan_start", "etherscan_done", "tenderly_start", "tenderly_done",
    "calltrace_enrich_start", "calltrace_enrich_done", "calltrace_explain_start",
    "calltrace_explain_done", "draft_start", "draft_done", "verify_start", "verify_done",
    "done">>

\* C3: the sink of a fully successful run received exactly the canonical
\* sequence, etherscan_done before tenderly_start.
C3_CanonicalSequence ==
  (RunReturned /\ cfg.sink /\ FullySuccessful) => EventNames = CanonicalSequence

\* C4 as stated: every completion event of a stage is preceded by the start
\* event of that stage.
C4_EveryDoneHasStart ==
  \A stage \in Stages : \A i \in 1..Len(Events) : ~DoneWithoutStart(stage, i)

\* C4, amended: every completion event is preceded by its start event, except
\* tenderly_done of a run whose trace service is disabled, which is emitted
\* without a tenderly_start.
C4_DoneHasStartUnlessTraceDisabled ==
  LET ev == Events
  IN \A stage \in Stages : \A i \in 1..Len(ev) :
       DoneWithoutStartIn(ev, stage, i) => (stage = "tenderly" /\ ~cfg.useTenderly)

\* A returned run with the trace service disabled in which every stage
\* reported its completion.
C4_Witness ==
  /\ RunReturned /\ cfg.sink /\ ~cfg.useTenderly
  /\ \A stage \in Stages : Count(DoneOf(stage)) = 1
  /\ Count("tenderly_start") = 0

\* C5: in a returned run every stage that emitted a start event emitted
\* exactly one start and exactly one completion event.
C5_OneStartOneDone ==
  RunReturned =>
    \A stage \in Stages :
      Count(StartOf(stage)) > 0 =>
        Count(StartOf(stage)) = 1 /\ Count(DoneOf(stage)) = 1

\* C6: a returned run with a bound sink delivered exactly one done event, and
\* it is the last event.
C6_ExactlyOneTerminalEvent ==
  (RunReturned /\ cfg.sink) =>
    /\ Count("done") = 1
    /\ Len(Events) > 0 /\ Events[Len(Events)].n = "done"

\* C10: a step taken with the error field set makes no external call and
\* delivers no event other than done, leaves the context alone before Output,
\* and keeps the error.
C10_StagesSkippedAfterError ==
  [][ctx.error # NULL =>
       /\ Len(log') >= Len(log)
       /\ \A i \in (Len(log) + 1)..Len(log') : log'[i] = Ev("done")
       /\ pc # "output" => ctx' = ctx
       /\ ctx'.error = ctx.error]_vars

\* Extract failed after the mandatory fetch, the later stages were passed,
\* and the sink saw nothing after Extract's events but done.
C10_Witness ==
  /\ RunReturned /\ cfg.sink /\ cfg.entry = "analyzeTx"
  /\ ctx.error = ExtractError /\ ret.fetched
  /\ Count("etherscan_done") = 1 /\ Count("draft_start") = 0
  /\ Events[Len(Events)].n = "done"

(***************************************************************************)
(* Properties of the fusion.  The pre-order of a call tree is stated on    *)
(* the positions of its nodes: a position is the list of child indices     *)
(* leading to the node, and a node comes before another when its position  *)
(* is a proper prefix of the other's or is smaller at the first index      *)
(* where they differ.                                                      *)
(***************************************************************************)
RECURSIVE PositionsOf(_)
PositionsOf(t) ==
  {<<>>} \cup UNION { { <<i>> \o p : p \in PositionsOf(t.calls[i]) } : i \in 1..Len(t.calls) }

RECURSIVE NodeAt(_, _)
NodeAt(t, p) == IF p = <<>> THEN t ELSE NodeAt(t.calls[Head(p)], Tail(p))

Before(p, q) ==
  \/ Len(p) < Len(q) /\ SubSeq(q, 1, Len(p)) = p
  \/ \E i \in 1..Min(Len(p), Len(q)) :
       /\ SubSeq(p, 1, i - 1) = SubSeq(q, 1, i - 1)
       /\ p[i] < q[i]

PreorderIndex(t, p) == 1 + Cardinality({ q \in PositionsOf(t) : Before(q, p) })

\* The root of the tree the trace service returned.
ReturnedRoot == ret.trace[1].trace[1]

\* An entry describes the same call as an entry of the explorer's list.
FromExplorer(e) ==
  \E j \in 1..Len(ret.explorer) :
    e.from = ret.explorer[j].from /\ e.to = ret.explorer[j].to

\* C7: when the trace service returned a trace, the fused view has one entry
\* per node of the tree, in pre-order, each with the node's type, from, to and
\* value ("0" for a node without one), and no entry of the explorer's list.
C7_TraceWinsFusion ==
  (ret.completed /\ ret.trace # None) =>
    /\ Len(ctx.internalTxs) = Cardinality(PositionsOf(ReturnedRoot))
    /\ \A p \in PositionsOf(ReturnedRoot) :
         LET e == ctx.internalTxs[PreorderIndex(ReturnedRoot, p)]
             node == NodeAt(ReturnedRoot, p)
         IN /\ e.type = node.type /\ e.from = node.from /\ e.to = node.to
            /\ e.value = (IF node.value = NULL THEN "0" ELSE node.value)
    /\ \A i \in 1..Len(ctx.internalTxs) : ~FromExplorer(ctx.internalTxs[i])

\* Extract completed with a trace whose root has a child while the explorer
\* returned two entries.
C7_Witness ==
  /\ pc = "enrich" /\ ret.completed /\ ret.trace # None
  /\ Len(ReturnedRoot.calls) = 1
  /\ ReturnedRoot.calls[1].type # ReturnedRoot.type
  /\ Len(ret.explorer) = 2
  /\ Len(ctx.internalTxs) = 2

\* C8 as stated: without a trace the fused view is the explorer's list itself.
C8_ExplorerListVerbatim ==
  (ret.completed /\ ret.trace = None) => ctx.internalTxs = ret.explorer

\* C8, amended: without a trace the fused view has the explorer's entries in
\* the explorer's order, each reduced to from, to, value, type, gas, gasUsed
\* and isError; an empty value becomes "0", an empty type "call", and the
\* entry's other fields are dropped.
C8_ExplorerListReduced ==
  (ret.completed /\ ret.trace = None) =>
    /\ Len(ctx.internalTxs) = Len(ret.explorer)
    /\ \A i \in 1..Len(ret.explorer) :
         LET e == ctx.internalTxs[i]
             x == ret.explorer[i]
         IN /\ DOMAIN e = {"from", "to", "value", "type", "gas", "gasUsed", "isError"}
            /\ e.from = x.from /\ e.to = x.to
            /\ e.value = (IF x.value = "" THEN "0" ELSE x.value)
            /\ e.type = (IF x.type = "" THEN "call" ELSE x.type)
            /\ e.gas = x.gas /\ e.gasUsed = x.gasUsed /\ e.isError = x.isError

\* The trace service was enabled and returned nothing; the explorer returned
\* two different entries, one of them without a type.
C8_Witness ==
  /\ pc = "enrich" /\ ret.completed /\ cfg.useTenderly /\ ret.trace = None
  /\ Len(ret.explorer) = 2 /\ ret.explorer[1] # ret.explorer[2]
  /\ ret.explorer[1].type = ""
  /\ Len(ctx.internalTxs) = 2

\* C9: after a completed Extract the context's tenderlyCallTrace is what the
\* trace service returned and its etherscanInternalTxs holds the calls the
\* explorer returned, one entry per explorer entry with its from, to and value.
C9_BothSourcesRetained ==
  ret.completed =>
    /\ ctx.tenderlyCallTrace = ret.trace
    /\ Len(ctx.etherscanInternalTxs) = Len(ret.explorer)
    /\ \A i \in 1..Len(ret.explorer) :
         /\ ctx.etherscanInternalTxs[i].from = ret.explorer[i].from
         /\ ctx.etherscanInternalTxs[i].to = ret.explorer[i].to
         /\ ctx.etherscanInternalTxs[i].value = ret.explorer[i].value

(***************************************************************************)
(* Properties of failed runs.                                              *)
(***************************************************************************)
\* getTransactionDetails returned the transaction: Extract went on to its
\* own fetch of the receipt.
TransactionFetched ==
  Cardinality({ i \in 1..Len(log) : log[i] = Call("getTransactionReceipt", "") }) >= 2

\* C11: a returned run that failed still holds what was gathered before the
\* failure: the transaction when it had been fetched, and all outputs of
\* Extract when Extract had completed.
C11_DataPreservedAfterError ==
  (RunReturned /\ ctx.error # NULL) =>
    /\ TransactionFetched => ctx.rawTx # None
    /\ ret.completed =>
         /\ ctx.rawTx # None /\ ctx.gasContext # None
         /\ ctx.tenderlyCallTrace = ret.trace

\* C12: a run that ends with the error set returns, and its report has the
\* summary "Error: " followed by the error text, the pattern type unknown,
\* and empty steps, token flows and technical details.
C12_ErrorReportShape ==
  /\ pc # "raised" /\ pc # "tool_catch"
  /\ (pc \in {"tool", "done"} /\ ctx.error # NULL) =>
       /\ ctx.finalReport # None
       /\ LET report == ctx.finalReport[1]
          IN /\ DOMAIN report = {"summary", "mevType", "steps", "tokenFlows", "technicalDetails"}
             /\ report.summary =
                  (CASE ctx.error = "Failed to extract transaction data" ->
                          "Error: Failed to extract transaction data"
                     [] ctx.error = "Failed to generate explanation" ->
                          "Error: Failed to generate explanation"
                     [] OTHER -> NULL)
             /\ report.mevType = "unknown"
             /\ report.steps = <<>> /\ report.tokenFlows = <<>>
             /\ DOMAIN report.technicalDetails = {}

\* Draft failed after an Extract that found token flows: the context holds
\* the flows, the report holds none.
C12_Witness ==
  /\ RunReturned /\ ctx.error = DraftError /\ "draft" \in ret.failed
  /\ Len(ctx.tokenFlows) > 0
  /\ ctx.finalReport # None /\ ctx.finalReport[1].tokenFlows = <<>>

(***************************************************************************)
(* The entry points and the transaction hash they hand to analyzeTx.  A    *)
(* text is a sequence of characters; a hash of the model has HashDigits    *)
(* digits after "0x" where the program's has 64.  The optional             *)
(* collaborators are unavailable in these runs: their answers are the      *)
(* subject of Spec.                                                         *)
(***************************************************************************)
HashDigits == 2

\* The characters of a text: a hex digit, the x of the prefix, and a letter
\* that is no hex digit.
Chars == {"0", "x", "g"}

IsHexDigit(ch) == ch = "0"

Texts == SeqsUpTo(Chars, HashDigits + 3)

Chains == {"ethereum", "solana"}

\* txHash.startsWith('0x') && txHash.length === 66
HasHashShape(h) ==
  Len(h) = HashDigits + 2 /\ h[1] = "0" /\ h[2] = "x"

\* \w of the regular expressions: every character of the model but the space.
IsWordChar(ch) == ch # " "

\* message.trim()
RECURSIVE Trim(_)
Trim(t) ==
  IF t = <<>> THEN t
  ELSE IF Head(t) = " " THEN Trim(Tail(t))
  ELSE IF t[Len(t)] = " " THEN Trim(SubSeq(t, 1, Len(t) - 1))
  ELSE t

\* TX_HASH_REGEX = /0x[a-fA-F0-9]{64}\b/: the matches are the occurrences of
\* 0x and 64 hex digits that end the text or are followed by a character
\* that is not a word character.
TxHashMatches(message) ==
  { i \in 1..Len(message) :
      /\ i + HashDigits + 1 <= Len(message)
      /\ message[i] = "0" /\ message[i + 1] = "x"
      /\ \A j \in (i + 2)..(i + HashDigits + 1) : IsHexDigit(message[j])
      /\ \/ i + HashDigits + 1 = Len(message)
         \/ ~IsWordChar(message[i + HashDigits + 2]) }

\* detectIntent: the first match of the trimmed message, None for a chat
\* message.
DetectIntent(message) ==
  LET trimmed == Trim(message)
  IN IF TxHashMatches(trimmed) = {} THEN None
     ELSE LET i == CHOOSE k \in TxHashMatches(trimmed) :
                     \A l \in TxHashMatches(trimmed) : k <= l
          IN Some(SubSeq(trimmed, i, i + HashDigits + 1))

\* The context analyzer.invoke starts from.
InvokedContext(txHash, chain) ==
  [f \in DOMAIN InitialContext \cup {"txHash", "chain"} |->
     IF f = "txHash" THEN txHash ELSE IF f = "chain" THEN chain ELSE InitialContext[f]]

EntryPoints == {"cli", "server", "tool", "analyzeTx"}

\* The command line and the chat server always analyze on ethereum.
Invocations ==
  { c \in [entry : EntryPoints, message : Texts, chain : Chains, sink : BOOLEAN,
           useTenderly : {FALSE}, enableVerification : {FALSE},
           conversationId : {NULL, "conv_1"}, sinkFails : {{}}] :
      /\ c.entry \in {"cli", "server"} => c.chain = "ethereum"
      /\ c.entry # "server" => c.conversationId = NULL
      /\ c.sink = (c.entry \in {"server", "tool"}) }

InputInit ==
  /\ cfg \in Invocations
  /\ pc = cfg.entry
  /\ ctx = InitialContext
  /\ log = <<>>
  /\ ret = NothingReturned

\* cli.ts main: the format check, then analyzeTx(txHash).
CliMain ==
  /\ pc = "cli"
  /\ IF HasHashShape(cfg.message)
     THEN pc' = "analyzeTx" /\ ctx' = InvokedContext(cfg.message, "ethereum")
     ELSE pc' = "exit" /\ ctx' = ctx
  /\ UNCHANGED <<cfg, log, ret>>

\* sendSSE(res, event, data): an event of the response stream with the part
\* of its data the model keeps.
Sse(n, a) == [k |-> "event", n |-> n, a |-> a]

\* generateId()
NEW_CONVERSATION == "conv_new"

NoHashReply == "Send a transaction hash (0x...) to analyze it."
BadHashReply == "Please provide a valid transaction hash (0x + 64 hex characters)."

\* POST /api/chat up to the call of analyzeTx: a message that is empty after
\* trimming is refused with status 400 and no stream; else the session event,
\* the intent, the format check, then analyzeTx.  A message without a hash
\* is answered with the fixed reply.
ServerChat ==
  /\ pc = "server"
  /\ LET userMessage == Trim(cfg.message)
         intent == DetectIntent(userMessage)
         session == <<Sse("session", OrElse(cfg.conversationId, NEW_CONVERSATION))>>
     IN IF userMessage = <<>> THEN pc' = "exit" /\ ctx' = ctx /\ log' = log
        ELSE IF intent = None
        THEN /\ pc' = "closed" /\ ctx' = ctx
             /\ log' = log \o session \o <<Sse("message_end", NoHashReply)>>
        ELSE IF HasHashShape(intent[1])
        THEN /\ pc' = "analyzeTx" /\ ctx' = InvokedContext(intent[1], "ethereum")
             /\ log' = log \o session
        ELSE /\ pc' = "closed" /\ ctx' = ctx
             /\ log' = log \o session \o
                       <<Sse("error", "Invalid transaction hash format."),
                         Sse("message_end", BadHashReply)>>
  /\ UNCHANGED <<cfg, ret>>

\* The analyze_transaction tool: analyzeTx(txHash, chain || 'ethereum').
ToolCall ==
  /\ pc = "tool"
  /\ pc' = "analyzeTx"
  /\ ctx' = InvokedContext(cfg.message, cfg.chain)
  /\ UNCHANGED <<cfg, log, ret>>

\* analyzeTx called directly.
DirectCall ==
  /\ pc = "analyzeTx" /\ cfg.entry = "analyzeTx" /\ "txHash" \notin DOMAIN ctx
  /\ ctx' = InvokedContext(cfg.message, cfg.chain)
  /\ UNCHANGED <<pc, cfg, log, ret>>

\* A hash of the format, as the ledger understands it.
LedgerAccepts(h) ==
  HasHashShape(h) /\ \A j \in 3..Len(h) : IsHexDigit(h[j])

\* The graph's first node on the invoked context: the ledger answers a
\* request for a hash it cannot parse with an error.
ExtractInvoked ==
  /\ pc = "analyzeTx" /\ "txHash" \in DOMAIN ctx
  /\ \E m \in MandatoryOutcomes, tx \in TxKinds :
       /\ ~LedgerAccepts(ctx.txHash) => m = "tx_failed"
       /\ \E r \in {Delivered(ExtractNode(ctx, cfg, m, tx, FALSE, "none", None, <<>>, 0,
                                  [t \in TokensOf(tx) |-> [rpc |-> None, exp |-> None]]),
                                 cfg, "extract")} :
            /\ ctx' = Merge(ctx, r.upd)
            /\ log' = log \o r.log
            /\ pc' = AfterStage("extract", cfg, r)
  /\ UNCHANGED <<cfg, ret>>

InputNext ==
  \/ CliMain
  \/ ServerChat
  \/ ToolCall
  \/ DirectCall
  \/ ExtractInvoked

InputSpec == InputInit /\ [][InputNext]_vars

\* The input of the run: the hash and the chain handed to analyzeTx.
WellFormedInput ==
  /\ Len(ctx.txHash) = HashDigits + 2
  /\ ctx.txHash[1] = "0" /\ ctx.txHash[2] = "x"
  /\ \A j \in 3..Len(ctx.txHash) : IsHexDigit(ctx.txHash[j])
  /\ ctx.chain = "ethereum"

\* C13: no external call is made for a run whose hash is not 0x followed by
\* the fixed number of hex digits or whose chain is not supported.
C13_MalformedInputFailsBeforeIO ==
  ("txHash" \in DOMAIN ctx /\ ~WellFormedInput) => \A i \in 1..Len(log) : ~IsCall(log[i])

(***************************************************************************)
(* Properties of the stage order.                                          *)
(***************************************************************************)
\* The stage an event belongs to, by its place in the run.
StageRank(name) ==
  CASE name \in {"rpc_done", "etherscan_start", "etherscan_done", "tenderly_start",
                 "tenderly_done"} -> 1
    [] name \in {"calltrace_enrich_start", "calltrace_enrich_done"} -> 2
    [] name \in {"calltrace_explain_start", "calltrace_explain_done"} -> 3
    [] name \in {"draft_start", "draft_done"} -> 4
    [] name \in {"verify_start", "verify_done"} -> 5
    [] name = "done" -> 6

\* The steps of one run: each stage is followed by the next one.
StageSteps ==
  { <<"extract", "enrich">>, <<"enrich", "explain">>, <<"explain", "draft">>,
    <<"draft", "verify">>, <<"verify", "output">>, <<"output", "tool">>,
    <<"output", "done">>, <<"tool", "done">> }

IsStageStep(from, to) == <<from, to>> \in StageSteps

\* Each stage found the updates of its predecessors in the context.
PredecessorsMerged ==
  /\ (ret.completed /\ pc \notin {"extract", "enrich"}) =>
       /\ ctx.rawTx # None
       /\ Len(ctx.flattenedCalls) = Len(ctx.internalTxs)
  /\ (pc \notin {"extract", "enrich", "explain"} /\ Len(ctx.flattenedCalls) > 0
        /\ ctx.error = NULL) =>
       ctx.callTraceExplanation # NULL
  /\ ctx.verificationResult # None => Truthy(ctx.draftExplanation)
  /\ (ctx.finalReport # None /\ ctx.error = NULL) =>
       /\ ctx.finalReport[1].summary = OrElse(ctx.draftExplanation, "No explanation generated")
       /\ ctx.finalReport[1].verification = ctx.verificationResult
       /\ ctx.finalReport[1].callTraceExplanation = ctx.callTraceExplanation

MaxTreeNodes == 4

\* A plain value transfer: no calldata to decode, no token to look up.
PlainTransfer == CHOOSE tx \in TxKinds : tx.input = "0x" /\ tx.logs = <<>>

\* Extract on a transaction whose trace is the tree t, the other optional
\* collaborators unavailable.
ExtractWithTrace(c, t) ==
  ExtractNode(InitialContext, c, "ok", PlainTransfer, FALSE, "none",
              Some([trace |-> <<t>>]), <<>>, 0, <<>>)

FlattenInit ==
  /\ pc = "enrich"
  /\ cfg \in { c \in Configs : c.useTenderly /\ c.entry = "analyzeTx" }
  /\ \E n \in 1..MaxTreeNodes : \E t \in TreesN(n) :
       /\ ctx = Merge(InitialContext, ExtractWithTrace(cfg, t).upd)
       /\ log = ExtractWithTrace(cfg, t).log
       /\ ret = [fetched |-> TRUE, completed |-> TRUE, trace |-> Some([trace |-> <<t>>]),
                 explorer |-> <<>>, failed |-> {}, tx |-> Some(PlainTransfer)]

FlattenSpec == FlattenInit /\ [][CallTraceEnrich]_vars

\* C15: the flattening of the returned tree has one entry per node, in
\* pre-order, the entry of a node carrying the node's type, from and to and
\* the length of the node's position as depth; the index fields are
\* 0, 1, ..., N-1 in list order.
C15_FlattenPreorder ==
  pc = "explain" =>
    /\ Len(ctx.flattenedCalls) = Cardinality(PositionsOf(ReturnedRoot))
    /\ \A p \in PositionsOf(ReturnedRoot) :
         LET e == ctx.flattenedCalls[PreorderIndex(ReturnedRoot, p)]
             node == NodeAt(ReturnedRoot, p)
         IN /\ e.depth = Len(p)
            /\ e.type = node.type /\ e.from = node.from /\ e.to = node.to
    /\ \A i \in 1..Len(ctx.flattenedCalls) : ctx.flattenedCalls[i].index = i - 1

\* The tree root(a(b), c) was flattened: depths 0, 1, 2, 1.
C15_Witness ==
  /\ pc = "explain"
  /\ Len(ReturnedRoot.calls) = 2 /\ Len(ReturnedRoot.calls[1].calls) = 1
  /\ ReturnedRoot.calls[1].type # ReturnedRoot.calls[2].type
  /\ [i \in 1..Len(ctx.flattenedCalls) |-> ctx.flattenedCalls[i].depth] = <<0, 1, 2, 1>>

\* The shape of a tree: the shapes of its subtrees, in order.
RECURSIVE ShapeOf(_)
ShapeOf(t) == [i \in 1..Len(t.calls) |-> ShapeOf(t.calls[i])]

\* The entries a stack-based rebuild hangs below entry i: the later entries
\* one level deeper with no entry of i's depth or less in between.
ChildrenOf(flat, i) ==
  { j \in (i + 1)..Len(flat) :
      /\ flat[j].depth = flat[i].depth + 1
      /\ \A k \in (i + 1)..(j - 1) : flat[k].depth > flat[i].depth }

\* The members of a set of numbers in increasing order.
RECURSIVE Ascending(_)
Ascending(S) ==
  IF S = {} THEN <<>>
  ELSE LET least == CHOOSE x \in S : \A y \in S : x <= y
       IN <<least>> \o Ascending(S \ {least})

RECURSIVE RebuiltShape(_, _)
RebuiltShape(flat, i) ==
  LET children == Ascending(ChildrenOf(flat, i))
  IN [k \in 1..Len(children) |-> RebuiltShape(flat, children[k])]

\* The (depth, index) pairs of the flattening, ordered by index.
DepthsByIndex ==
  [i \in 1..Len(ctx.flattenedCalls) |->
     LET e == CHOOSE x \in Range(ctx.flattenedCalls) : x.index = i - 1
     IN [depth |-> e.depth]]

\* C16: rebuilding a tree from the (depth, index) sequence of the flattening
\* gives the shape of the returned tree.
C16_FlattenRebuildIdentity ==
  pc = "explain" =>
    /\ \A i \in 1..Len(ctx.flattenedCalls) :
         \E x \in Range(ctx.flattenedCalls) : x.index = i - 1
    /\ RebuiltShape(DepthsByIndex, 1) = ShapeOf(ReturnedRoot)

\* A chain of three calls below a root with a second child was flattened
\* and rebuilt.
C16_Witness ==
  /\ pc = "explain"
  /\ ShapeOf(ReturnedRoot) = << << <<>> >>, <<>> >>
  /\ RebuiltShape(DepthsByIndex, 1) = << << <<>> >>, <<>> >>

(***************************************************************************)
(* Call-Trace Enrichment on explorer lists with many addresses, with       *)
(* lookups that throw.                                                     *)
(***************************************************************************)
MaxCalls == 12

\* Distinct addresses; b2 and c3 are contracts.
AddressPool ==
  <<"b2", "c3", "p03", "p04", "p05", "p06", "p07",
    "p08", "p09", "p10", "p11", "p12", "p13", "p14",
    "p15", "p16", "p17", "p18", "p19", "p20", "p21",
    "p22", "p23", "p24", "p25", "p26", "p27", "p28">>

\* An explorer list of k calls: the first from A1 to a1, the others between
\* two addresses not seen before.
CallList(k) ==
  [i \in 1..k |->
     [from |-> IF i = 1 THEN "A1" ELSE AddressPool[2 * i - 3],
      to |-> IF i = 1 THEN "a1" ELSE AddressPool[2 * i - 2],
      value |-> IF i % 2 = 0 THEN "0" ELSE "1", type |-> "call", gas |-> "2300",
      gasUsed |-> "0", isError |-> "0", errCode |-> ""]]

\* Extract on a transaction without a trace whose explorer list is ex.
ExtractWithExplorer(c, ex) ==
  ExtractNode(InitialContext, c, "ok", PlainTransfer, FALSE, "none", None, ex, 0, <<>>)

\* The addresses whose lookups fail.
FailureSets ==
  { NoFailures,
    [NoFailures EXCEPT !.throws = {"a1"}],
    [NoFailures EXCEPT !.throws = {"b2", "p04"}],
    [NoFailures EXCEPT !.throws = {"a1"} \cup Range(AddressPool)],
    [NoFailures EXCEPT !.bytecode = {"b2"}],
    [NoFailures EXCEPT !.explorer = {"b2"}],
    [throws |-> {"a1"}, bytecode |-> {"c3"}, explorer |-> {"b2"}] }

\* failing: the failures the run will meet.
EnrichConfigs ==
  [useTenderly : BOOLEAN, enableVerification : {TRUE}, sink : BOOLEAN,
   entry : {"analyzeTx"}, sinkFails : {{}}, failing : FailureSets]

EnrichInit ==
  /\ pc = "enrich"
  /\ cfg \in EnrichConfigs
  /\ \E k \in 0..MaxCalls :
       /\ ctx = Merge(InitialContext, ExtractWithExplorer(cfg, CallList(k)).upd)
       /\ log = ExtractWithExplorer(cfg, CallList(k)).log
       /\ ret = [fetched |-> TRUE, completed |-> TRUE, trace |-> None,
                 explorer |-> CallList(k), failed |-> {}, tx |-> Some(PlainTransfer)]

\* callTraceEnrichNode, with lookups that fail.
CallTraceEnrichFailing ==
  /\ pc = "enrich"
  /\ \E failing \in {cfg.failing} :
       \E r \in {Delivered(CallTraceEnrichNode(ctx, cfg, failing), cfg, "enrich")} :
          /\ ctx' = Merge(ctx, r.upd)
          /\ log' = log \o r.log
          /\ pc' = AfterStage("enrich", cfg, r)
  /\ UNCHANGED <<cfg, ret>>

EnrichSpec == EnrichInit /\ [][CallTraceEnrichFailing]_vars

\* The addresses of the explorer's calls in order of appearance, lower-cased.
CandidateSeq ==
  Concat([i \in 1..Len(ret.explorer) |->
            <<ToLower(ret.explorer[i].from), ToLower(ret.explorer[i].to)>>])

FirstAt(a) == CHOOSE i \in 1..Len(CandidateSeq) :
                /\ CandidateSeq[i] = a
                /\ \A j \in 1..(i - 1) : CandidateSeq[j] # a

\* The capped candidate set: the addresses with fewer than C distinct
\* addresses appearing before them.
CappedCandidates ==
  { a \in Range(CandidateSeq) :
      Cardinality({ b \in Range(CandidateSeq) : FirstAt(b) < FirstAt(a) })
        < MAX_ADDRESSES_TO_ENRICH }

\* C17: after Call-Trace Enrichment the map has at most C keys, its keys are
\* exactly the capped candidates, and each is mapped to the unknown record
\* or to a record with the address's label and the contract flag the
\* bytecode check answered.
C17_EnrichmentCapped ==
  pc = "explain" =>
    /\ Cardinality(DOMAIN ctx.callTraceEnrichment) <= MAX_ADDRESSES_TO_ENRICH
    /\ DOMAIN ctx.callTraceEnrichment = CappedCandidates
    /\ \A a \in DOMAIN ctx.callTraceEnrichment :
         LET info == ctx.callTraceEnrichment[a]
         IN \/ info.label = NULL /\ info.isContract = FALSE
            \/ info.label = KnownLabel(a) /\ (info.isContract => a \in ContractAddrs)

\* More than C addresses were candidates, one lookup threw: the map has C
\* keys, one of them with the unknown record and one with a contract's.
C17_Witness ==
  /\ pc = "explain"
  /\ Cardinality(Range(CandidateSeq)) > MAX_ADDRESSES_TO_ENRICH
  /\ Cardinality(DOMAIN ctx.callTraceEnrichment) = MAX_ADDRESSES_TO_ENRICH
  /\ ctx.callTraceEnrichment["a1"] = UnknownRecord
  /\ ctx.callTraceEnrichment["b2"].isContract
  /\ ctx.callTraceEnrichment["b2"].label = "Router"

(***************************************************************************)
(* Verification.                                                           *)
(***************************************************************************)
VerifyCalls(l) == { i \in 1..Len(l) : l[i] = Call("llm.invoke", "verify") }

\* A step of the Verify stage in a run that has not failed.
VerifyStep == pc = "verify" /\ pc' = "output" /\ ctx.error = NULL

\* C18: with verification disabled, every invocation of Verify in a run that
\* has not failed leaves verificationResult = {passed: true, issues: []},
\* whatever the draft is (the empty draft included), and calls no
\* text-generation collaborator.
C18_DisabledVerifyAlwaysPasses ==
  [][(VerifyStep /\ ~cfg.enableVerification) =>
       /\ ctx'.verificationResult = Some(Passed)
       /\ VerifyCalls(log') = {}]_vars

\* The Verify stage went past its guards with verification enabled.
VerifyAttempted ==
  /\ cfg.enableVerification
  /\ ctx.rawTx # None
  /\ Truthy(ctx.draftExplanation)
  /\ pc \in {"output", "tool", "done", "raised", "tool_catch"}

\* C19: verification is advisory.  No step of Verify changes the error
\* field; and whatever the collaborator replied, or when it failed, the run
\* returns a report whose summary is the draft and whose verification field
\* is the result Verify left in the context.
C19_VerificationAdvisory ==
  /\ [][pc = "verify" => ctx'.error = ctx.error]_vars
  /\ [](VerifyAttempted =>
          /\ ctx.error = NULL
          /\ ctx.verificationResult # None
          /\ pc \notin {"raised", "tool_catch"}
          /\ pc \in {"tool", "done"} =>
               /\ ctx.finalReport # None
               /\ ctx.finalReport[1].summary = ctx.draftExplanation
               /\ ctx.finalReport[1].verification = ctx.verificationResult)

\* Verify found issues in the draft, and the report was returned with the
\* draft as its summary and the issues attached.
C19_Witness ==
  /\ pc = "done"
  /\ VerifyAttempted
  /\ ctx.finalReport # None
  /\ ctx.finalReport[1].summary = "1. swap"
  /\ ctx.finalReport[1].verification # None
  /\ ~ctx.finalReport[1].verification[1].passed
  /\ Len(ctx.finalReport[1].verification[1].issues) > 0

\* The collaborator failed during Verify, and the report was returned with
\* the draft as its summary and a pass attached.
VerifyFailureReported ==
  /\ pc = "done"
  /\ "verify" \in ret.failed
  /\ ctx.finalReport # None
  /\ ctx.finalReport[1].summary = "1. swap"
  /\ ctx.finalReport[1].verification = Some(Passed)

(***************************************************************************)
(* Contract creations.                                                     *)
(***************************************************************************)
\* The ledger returned a contract-creation transaction and its receipt.
CreationRun == ret.fetched /\ ret.tx # None /\ ret.tx[1].to = NULL

DestinationLookups ==
  { i \in 1..Len(log) : log[i].n \in {"getBytecode", "getContractABI", "getContractSource"} }

\* The flows of the context without the token metadata added to them.
BareFlows ==
  [i \in 1..Len(ctx.tokenFlows) |->
     [token |-> ctx.tokenFlows[i].token, from |-> ctx.tokenFlows[i].from,
      to |-> ctx.tokenFlows[i].to, amount |-> ctx.tokenFlows[i].amount]]

\* C20: for a contract-creation transaction the decoded-call list is empty,
\* Extract makes no bytecode check and no ABI or source fetch, the token
\* flows of the context are the transfers of the receipt logs, and the run
\* returns a report with the pattern type unknown.
C20_ContractCreation ==
  (CreationRun /\ pc # "extract") =>
    /\ ctx.decodedCalls = <<>>
    /\ pc = "enrich" => DestinationLookups = {}
    /\ BareFlows = ExtractTokenFlows(ret.tx[1].logs)
    /\ pc \notin {"raised", "tool_catch"}
    /\ pc \in {"tool", "done"} =>
         /\ ctx.finalReport # None
         /\ ctx.finalReport[1].mevType = "unknown"

(***************************************************************************)
(* The progress sink.                                                      *)
(***************************************************************************)
CallsOf(l) == SelectSeq(l, IsCall)

\* Two results of a node that differ at most in the events sent.
SameButEvents(a, b) == a.upd = b.upd /\ CallsOf(a.log) = CallsOf(b.log)

WithSink == [cfg EXCEPT !.sink = TRUE]

\* In the current state, on every input, the stage about to run does without
\* a sink what it does with one, and sends no event.
StageIgnoresSink ==
  CASE pc = "extract" ->
         \A m \in MandatoryOutcomes, tx \in TxKinds :
         \A bytecodeOk \in BOOLEAN, abi \in AbiOutcomes, tr \in TraceResults,
            ex \in ExplorerLists, gas \in GasRefs, tok \in [TokensOf(tx) -> TokenSources] :
           \E r \in {ExtractNode(ctx, cfg, m, tx, bytecodeOk, abi, tr, ex, gas, tok)} :
             /\ SameButEvents(r, ExtractNode(ctx, WithSink, m, tx, bytecodeOk, abi, tr, ex, gas, tok))
             /\ r.log = CallsOf(r.log)
    [] pc = "enrich" ->
         \E r \in {CallTraceEnrichNode(ctx, cfg, NoFailures)} :
           /\ SameButEvents(r, CallTraceEnrichNode(ctx, WithSink, NoFailures))
           /\ r.log = CallsOf(r.log)
    [] pc = "explain" ->
         \A reply \in ExplainReplies :
           \E r \in {CallTraceExplainNode(ctx, cfg, reply)} :
             /\ SameButEvents(r, CallTraceExplainNode(ctx, WithSink, reply))
             /\ r.log = CallsOf(r.log)
    [] pc = "draft" ->
         \A reply \in DraftReplies :
           \E r \in {DraftNode(ctx, cfg, reply)} :
             /\ SameButEvents(r, DraftNode(ctx, WithSink, reply))
             /\ r.log = CallsOf(r.log)
    [] pc = "verify" ->
         \A reply \in {None} \cup { Some(v) : v \in VerifyReplies } :
           \E r \in {VerifyNode(ctx, cfg, reply)} :
             /\ SameButEvents(r, VerifyNode(ctx, WithSink, reply))
             /\ r.log = CallsOf(r.log)
    [] pc = "output" ->
         \E r \in {OutputNode(ctx, cfg)} :
           /\ SameButEvents(r, OutputNode(ctx, WithSink))
           /\ r.throws = OutputNode(ctx, WithSink).throws
           /\ r.log = CallsOf(r.log)
    [] OTHER -> TRUE

\* C21: in a run of analyzeTx without a sink no event is delivered, and every
\* stage returns the update and makes the calls it would with a sink bound,
\* so the run goes through the same stages with the same context.
C21_NoSinkNoOp ==
  ~cfg.sink => (Events = <<>> /\ StageIgnoresSink)

\* A run without a sink went through every stage, called the collaborators
\* and returned the success report.
C21_Witness ==
  /\ ~cfg.sink /\ cfg.useTenderly /\ cfg.enableVerification
  /\ pc = "done"
  /\ ctx.error = NULL
  /\ ctx.finalReport # None
  /\ ctx.finalReport[1].summary = "1. swap"
  /\ Call("llm.invoke", "verify") \in Range(log)
  /\ Call("llm.invoke", "explain") \in Range(log)
  /\ Events = <<>>

(***************************************************************************)
(* The chat server: one POST /api/chat request and its response stream.    *)
(***************************************************************************)
ChatTexts == SeqsUpTo(Chars \cup {" "}, HashDigits + 3)

ChatRequests ==
  [entry : {"server"}, message : ChatTexts, chain : {"ethereum"}, sink : {TRUE},
   useTenderly : {FALSE}, enableVerification : BOOLEAN,
   conversationId : {NULL, "conv_1"}, sinkFails : {{}}]

ChatInit ==
  /\ cfg \in ChatRequests
  /\ pc = "server"
  /\ ctx = InitialContext
  /\ log = <<>>
  /\ ret = NothingReturned

\* A faulty handler that ends the stream of a failed run in the error branch
\* and once more after it.
ServerReplyEndingTwice ==
  /\ pc \in {"done", "raised"} /\ cfg.entry = "server"
  /\ LET content ==
           IF ctx.finalReport # None THEN ctx.finalReport[1].summary
           ELSE IF Truthy(ctx.error) THEN ErrorSummary(ctx.error)
           ELSE "No report generated."
     IN log' = log \o
          (IF pc = "raised"
           THEN <<Sse("error", "exception"), Sse("message_end", "Error: exception")>>
           ELSE (IF Truthy(ctx.error)
                 THEN <<Sse("error", ctx.error), Sse("message_end", content)>> ELSE <<>>) \o
                <<Sse("message_end", content)>>)
  /\ pc' = "closed"
  /\ UNCHANGED <<cfg, ctx, ret>>

\* POST /api/chat after analyzeTx settled: the error event when the result
\* carries an error, then message_end with the report's summary; for a
\* rejection the catch block sends error and message_end.
ServerReply ==
  /\ pc \in {"done", "raised"} /\ cfg.entry = "server"
  /\ LET content ==
           IF ctx.finalReport # None THEN ctx.finalReport[1].summary
           ELSE IF Truthy(ctx.error) THEN ErrorSummary(ctx.error)
           ELSE "No report generated."
     IN log' = log \o
          (IF pc = "raised"
           THEN <<Sse("error", "exception"), Sse("message_end", "Error: exception")>>
           ELSE (IF Truthy(ctx.error) THEN <<Sse("error", ctx.error)>> ELSE <<>>) \o
                <<Sse("message_end", content)>>)
  /\ pc' = "closed"
  /\ UNCHANGED <<cfg, ctx, ret>>

ChatNext ==
  \/ ServerChat
  \/ ExtractInvoked
  \/ CallTraceEnrich
  \/ CallTraceExplain
  \/ Draft
  \/ Verify
  \/ Output
  \/ ServerReply

ChatSpec == ChatInit /\ [][ChatNext]_vars

\* The request was answered: refused, or its stream was closed.
RequestAnswered == pc \in {"exit", "closed"}

\* The events a run of the pipeline sends to its sink.
PipelineEvents ==
  {"rpc_done", "etherscan_start", "etherscan_done", "tenderly_start", "tenderly_done",
   "calltrace_enrich_start", "calltrace_enrich_done", "calltrace_explain_start",
   "calltrace_explain_done", "draft_start", "draft_done", "verify_start",
   "verify_done", "done"}

\* The message holds 0x and the hash's hex digits, not followed by a further
\* word character.
ContainsHash(message) ==
  \E i \in 1..Len(message) :
    /\ i + HashDigits + 1 <= Len(message)
    /\ SubSeq(message, i, i + 1) = <<"0", "x">>
    /\ \A j \in (i + 2)..(i + HashDigits + 1) : message[j] = "0"
    /\ (i + HashDigits + 1 < Len(message)) => message[i + HashDigits + 2] = " "

\* The response stream of an answered request: session first and once,
\* message_end last and once, the pipeline's events in between when the
\* message holds a hash, and no run and the fixed reply when it holds none.
StreamWellFormed ==
  /\ Len(Events) >= 2
  /\ Events[1].n = "session"
  /\ Events[1].a = (IF cfg.conversationId = NULL THEN "conv_new" ELSE cfg.conversationId)
  /\ Count("session") = 1
  /\ Events[Len(Events)].n = "message_end"
  /\ Count("message_end") = 1
  /\ IF ContainsHash(cfg.message)
     THEN /\ \E i \in 1..Len(log) : IsCall(log[i])
          /\ \E i \in 2..(Len(Events) - 1) : Events[i].n = "done"
          /\ \A i \in 1..Len(Events) :
               Events[i].n \in PipelineEvents => (1 < i /\ i < Len(Events))
     ELSE /\ \A i \in 1..Len(log) : ~IsCall(log[i])
          /\ \A i \in 1..Len(Events) : Events[i].n \notin PipelineEvents
          /\ Events[Len(Events)].a = "Send a transaction hash (0x...) to analyze it."

\* C22 as stated: every request with a non-empty message is answered with a
\* well-formed stream.
C22_StreamForNonEmptyMessage ==
  (RequestAnswered /\ cfg.message # <<>>) => StreamWellFormed

\* C22: every request whose message is not empty after trimming white space
\* is answered with a stream that begins with one session event carrying the
\* conversation id and ends with one message_end event, with the pipeline's
\* events in between when the message holds a hash, and with no run and the
\* fixed reply when it holds none.
C22_StreamForNonBlankMessage ==
  (RequestAnswered /\ \E i \in 1..Len(cfg.message) : cfg.message[i] # " ") =>
    StreamWellFormed

\* A request with a hash was answered after a successful run: the stream
\* holds the session, the run's events and done, then message_end with the
\* narrative.
C22_Witness ==
  /\ pc = "closed"
  /\ ContainsHash(cfg.message)
  /\ cfg.message[1] = " "
  /\ Events[1].n = "session"
  /\ Count("draft_done") = 1
  /\ Count("done") = 1
  /\ Events[Len(Events)] = Sse("message_end", "1. swap")

(***************************************************************************)
(* Runs with a sink that throws.                                           *)
(***************************************************************************)
SinkConfigs ==
  [useTenderly : BOOLEAN, enableVerification : {TRUE}, sink : {TRUE},
   entry : {"analyzeTx"}, sinkFails : {{}} \cup { {e} : e \in PipelineEvents }]

SinkInit ==
  /\ pc = "extract"
  /\ cfg \in SinkConfigs
  /\ ctx = InitialContext
  /\ log = <<>>
  /\ ret = NothingReturned

SinkNext ==
  \/ Extract
  \/ CallTraceEnrich
  \/ CallTraceExplain
  \/ Draft
  \/ Verify
  \/ Output

SinkSpec == SinkInit /\ [][SinkNext]_vars

WithoutSink == [cfg EXCEPT !.sink = FALSE]

\* The stage's result through the sink of the run is the result without a
\* sink: same update, same calls, and an exception only where the stage
\* throws without a sink.
Unaffected(stage, withSink, noSink) ==
  \E r \in {Delivered(withSink, cfg, stage)} :
    /\ r.upd = noSink.upd
    /\ r.throws = NodeThrows(noSink)
    /\ CallsOf(r.log) = CallsOf(noSink.log)

\* C23: whatever the bound sink does with an event, the stage about to run
\* returns on every input the update it returns without a sink, and does
\* not fail where it would not fail without one.
C23_SinkCannotInfluence ==
  CASE pc = "extract" ->
         \A m \in MandatoryOutcomes, tx \in TxKinds :
         \A bytecodeOk \in BOOLEAN, abi \in AbiOutcomes, tr \in TraceResults,
            ex \in ExplorerLists, gas \in GasRefs, tok \in [TokensOf(tx) -> TokenSources] :
           Unaffected("extract",
                      ExtractNode(ctx, cfg, m, tx, bytecodeOk, abi, tr, ex, gas, tok),
                      ExtractNode(ctx, WithoutSink, m, tx, bytecodeOk, abi, tr, ex, gas, tok))
    [] pc = "enrich" ->
         Unaffected("enrich", CallTraceEnrichNode(ctx, cfg, NoFailures),
                    CallTraceEnrichNode(ctx, WithoutSink, NoFailures))
    [] pc = "explain" ->
         \A reply \in ExplainReplies :
           Unaffected("explain", CallTraceExplainNode(ctx, cfg, reply),
                      CallTraceExplainNode(ctx, WithoutSink, reply))
    [] pc = "draft" ->
         \A reply \in DraftReplies :
           Unaffected("draft", DraftNode(ctx, cfg, reply), DraftNode(ctx, WithoutSink, reply))
    [] pc = "verify" ->
         \A reply \in {None} \cup { Some(v) : v \in VerifyReplies } :
           Unaffected("verify", VerifyNode(ctx, cfg, reply),
                      VerifyNode(ctx, WithoutSink, reply))
    [] pc = "output" ->
         Unaffected("output", OutputNode(ctx, cfg), OutputNode(ctx, WithoutSink))
    [] OTHER -> TRUE

(***************************************************************************)
(* The parsing of the fact-check reply.  A text is a sequence of lines, a  *)
(* line a sequence of words and blanks.                                    *)
(***************************************************************************)
MaxReplyLines == 2

ReplyLines ==
  { <<>>, <<"OK">>, <<"wrong", " ", "amount">>, <<"-", " ", "wrong", " ", "amount">>,
    <<" ", "-", "wrong", " ", "token">>, <<"No error", " ", "found">>,
    <<"-", "no error">> }

ReplyTexts == SeqsUpTo(ReplyLines, MaxReplyLines)

IsBlank(w) == w = " "

\* trim() on a line.
RECURSIVE TrimLine(_)
TrimLine(l) ==
  IF l = <<>> THEN l
  ELSE IF IsBlank(Head(l)) THEN TrimLine(Tail(l))
  ELSE IF IsBlank(l[Len(l)]) THEN TrimLine(SubSeq(l, 1, Len(l) - 1))
  ELSE l

\* trim() on a text: blank lines at both ends go, and the blanks at the
\* start of the first line and at the end of the last.
RECURSIVE TrimText(_)
TrimText(t) ==
  IF t = <<>> THEN t
  ELSE IF TrimLine(Head(t)) = <<>> THEN TrimText(Tail(t))
  ELSE IF TrimLine(t[Len(t)]) = <<>> THEN TrimText(SubSeq(t, 1, Len(t) - 1))
  ELSE IF Len(t) = 1 THEN <<TrimLine(t[1])>>
  ELSE LET first == Head(t)
           last == t[Len(t)]
           lead == CHOOSE k \in 1..Len(first) :
                     ~IsBlank(first[k]) /\ \A j \in 1..(k - 1) : IsBlank(first[j])
           trail == CHOOSE k \in 1..Len(last) :
                      ~IsBlank(last[k]) /\ \A j \in (k + 1)..Len(last) : IsBlank(last[j])
       IN <<SubSeq(first, lead, Len(first))>> \o SubSeq(t, 2, Len(t) - 1) \o
          <<SubSeq(last, 1, trail)>>

\* text.toUpperCase().startsWith('OK')
StartsWithOK(t) == t # <<>> /\ t[1] # <<>> /\ t[1][1] \in {"OK", "ok"}

\* text.toLowerCase().includes('no error')
IncludesNoError(t) ==
  \E i \in 1..Len(t) : \E j \in 1..Len(t[i]) : t[i][j] \in {"no error", "No error"}

\* l.trim().startsWith('-')
IsBulletLine(l) == TrimLine(l) # <<>> /\ TrimLine(l)[1] = "-"

\* l.replace(/^-\s*/, '').trim(): the marker goes only when it is the first
\* character of the line.
RECURSIVE DropBlanks(_)
DropBlanks(l) == IF l # <<>> /\ IsBlank(Head(l)) THEN DropBlanks(Tail(l)) ELSE l

IssueText(l) ==
  TrimLine(IF l # <<>> /\ Head(l) = "-" THEN DropBlanks(Tail(l)) ELSE l)

\* resp.content.toString().trim() as the parser reads it.
ReplyOf(content) ==
  LET text == TrimText(content)
  IN [startsOK |-> StartsWithOK(text), noError |-> IncludesNoError(text),
      lines |-> [i \in 1..Len(text) |->
                   [bullet |-> IsBulletLine(text[i]), text |-> IssueText(text[i])]]]

\* A run up to Verify: a plain transfer, explained by the draft.
DraftedContext(c) ==
  Merge(Merge(InitialContext,
              ExtractNode(InitialContext, c, "ok", PlainTransfer, FALSE, "none", None,
                          <<>>, 0, <<>>).upd),
        [draftExplanation |-> "1. swap"])

\* reply: the text the collaborator will answer with.
VerifyConfigs ==
  [useTenderly : {FALSE}, enableVerification : {TRUE}, sink : BOOLEAN,
   entry : {"analyzeTx"}, sinkFails : {{}}, reply : ReplyTexts]

VerifyInit ==
  /\ pc = "verify"
  /\ cfg \in VerifyConfigs
  /\ ctx = DraftedContext(cfg)
  /\ log = <<>>
  /\ ret = [NothingReturned EXCEPT !.fetched = TRUE, !.completed = TRUE,
                                   !.tx = Some(PlainTransfer)]

\* verifyNode with the collaborator answering cfg.reply.
VerifyReplying ==
  /\ pc = "verify"
  /\ \E r \in {Delivered(VerifyNode(ctx, cfg, Some(ReplyOf(cfg.reply))), cfg, "verify")} :
        /\ ctx' = Merge(ctx, r.upd)
        /\ log' = log \o r.log
        /\ pc' = AfterStage("verify", cfg, r)
  /\ UNCHANGED <<cfg, ret>>

VerifySpec == VerifyInit /\ [][VerifyReplying]_vars

\* The bullet lines of the reply: the lines whose first character that is not
\* a blank is the marker.
BulletLines ==
  SelectSeq(cfg.reply,
            LAMBDA l : \E k \in 1..Len(l) : l[k] = "-" /\ \A j \in 1..(k - 1) : l[j] = " ")

\* C24: a reply with bullet lines gives passed = false and one issue for
\* each bullet line; every reply without a bullet line gives passed = true
\* and no issues.
C24_BulletsOrPassed ==
  pc = "output" =>
    /\ ctx.verificationResult # None
    /\ LET result == ctx.verificationResult[1]
       IN IF BulletLines # <<>>
          THEN ~result.passed /\ Len(result.issues) = Len(BulletLines)
          ELSE result.passed /\ result.issues = <<>>

(***************************************************************************)
(* Token lookups that complete in any order.  Extract starts one lookup    *)
(* for each of the first unique tokens and awaits them together; the       *)
(* lookups finish in an order the network decides.  ret.arrived records    *)
(* the finished lookups in order of completion.                            *)
(***************************************************************************)
MaxTokenLogs == 6

TokenPool == <<"t1", "t2", "t3", "t4", "t5", "t6", "t7", "t8">>

PoolIndex(t) == CHOOSE i \in 1..Len(TokenPool) : TokenPool[i] = t

TokenLog(i) == [Erc20Log EXCEPT !.address = TokenPool[i]]

\* Receipt logs that move k distinct tokens, the last of them twice.
TokenLogs(k) ==
  (IF k > 0 THEN <<TokenLog(k)>> ELSE <<>>) \o [i \in 1..k |-> TokenLog(i)]

LookupTx(k) == [from |-> "u0", to |-> "b2", value |-> "0", gasPrice |-> 30,
                input |-> CALLDATA, logs |-> TokenLogs(k)]

\* What the two sources answer for a token: the on-chain read answers in
\* full; only the explorer knows the token; the on-chain read yields the
\* decimals alone; nobody knows the token.
TokenSourceKinds(t) ==
  << [rpc |-> Some([name |-> t, symbol |-> "TOK", decimals |-> "6"]), exp |-> None],
     [rpc |-> None, exp |-> Some([name |-> t, symbol |-> "EXP", decimals |-> "18"])],
     [rpc |-> Some([name |-> NULL, symbol |-> NULL, decimals |-> "8"]), exp |-> None],
     [rpc |-> None, exp |-> None] >>

SourcesFor(k, shift) ==
  [t \in { TokenPool[i] : i \in 1..k } |->
     TokenSourceKinds(t)[((PoolIndex(t) + shift) % 4) + 1]]

LookupConfigs ==
  { [useTenderly |-> FALSE, enableVerification |-> TRUE, sink |-> s,
     entry |-> "analyzeTx", sinkFails |-> {}, tokens |-> k, tok |-> SourcesFor(k, shift)] :
      s \in BOOLEAN, k \in 0..MaxTokenLogs, shift \in 0..3 }

\* Extract with the lookups answered one after the other.
ExtractSequential(c) ==
  ExtractNode(InitialContext, c, "ok", LookupTx(c.tokens), TRUE, "none", None,
              CallList(2), 0, c.tok)

IsTokenCall(e) == IsCall(e) /\ e.n \in {"getTokenInfoFromRPC", "getTokenInfo"}

\* uniqueTokens.slice(0, 5)
LookedTokens(c) ==
  LET tokenFlows == ExtractTokenFlows(LookupTx(c.tokens).logs)
  IN Take(Unique([i \in 1..Len(tokenFlows) |-> tokenFlows[i].token]), TOKEN_LOOKUPS)

LookupInit ==
  /\ pc = "lookup"
  /\ cfg \in LookupConfigs
  /\ ctx = InitialContext
  /\ log = SelectSeq(ExtractSequential(cfg).log, LAMBDA e : ~IsTokenCall(e))
  /\ ret = [fetched |-> TRUE, completed |-> FALSE, trace |-> None,
            explorer |-> CallList(2), failed |-> {}, tx |-> Some(LookupTx(cfg.tokens)),
            arrived |-> <<>>]

Arrived(i) == \E j \in 1..Len(ret.arrived) : ret.arrived[j].index = i

\* One of the pending lookups finishes.
CompleteTokenLookup ==
  /\ pc = "lookup"
  /\ \E i \in 1..Len(LookedTokens(cfg)) :
       /\ ~Arrived(i)
       /\ \E r \in {TokenLookup(LookedTokens(cfg)[i], cfg.tok[LookedTokens(cfg)[i]])} :
            /\ ret' = [ret EXCEPT !.arrived = Append(@, [index |-> i, result |-> r])]
            /\ log' = log \o r.calls
  /\ UNCHANGED <<pc, cfg, ctx>>

\* Promise.all: the results in the order of the inputs, whatever the order
\* of completion.
PromiseAll(n, arrived) ==
  [i \in 1..n |->
     arrived[CHOOSE j \in 1..Len(arrived) : arrived[j].index = i].result]

\* All lookups have finished: the flows are merged with the results and the
\* node returns.
FinishExtract ==
  /\ pc = "lookup"
  /\ \A i \in 1..Len(LookedTokens(cfg)) : Arrived(i)
  /\ LET tokenFlows == ExtractTokenFlows(LookupTx(cfg.tokens).logs)
         tokenInfoResults == PromiseAll(Len(LookedTokens(cfg)), ret.arrived)
         enrichedTokenFlows ==
           [i \in 1..Len(tokenFlows) |-> EnrichFlow(tokenFlows[i], tokenInfoResults)]
     IN ctx' = Merge(ctx, [ExtractSequential(cfg).upd EXCEPT
                             !.tokenFlows = enrichedTokenFlows])
  /\ pc' = "enrich"
  /\ ret' = [ret EXCEPT !.completed = TRUE]
  /\ UNCHANGED <<cfg, log>>

LookupNext == CompleteTokenLookup \/ FinishExtract \/ CallTraceEnrich

LookupSpec == LookupInit /\ [][LookupNext]_vars

\* The metadata the sources hold for a token, as a flow carries it.
OwnMetadata(t) ==
  LET info == IF t \in Range(LookedTokens(cfg)) THEN TokenLookup(t, cfg.tok[t]).info ELSE None
      F(f) == IF info = None THEN NULL ELSE OrElse(info[1][f], NULL)
  IN [symbol |-> F("symbol"), name |-> F("name"), decimals |-> F("decimals")]

\* The context a run reaches when every lookup is answered in turn.
SequentialContext ==
  LET extracted == Merge(InitialContext, ExtractSequential(cfg).upd)
  IN IF pc = "enrich" THEN extracted
     ELSE Merge(extracted, CallTraceEnrichNode(extracted, cfg, NoFailures).upd)

\* C25: for every order of completion each token flow carries the metadata
\* of its own token, each enrichment entry is the record of its own address,
\* and the merged context is the one of a run whose lookups are answered one
\* after the other.
C25_MergedByKey ==
  pc \in {"enrich", "explain"} =>
    /\ \A i \in 1..Len(ctx.tokenFlows) :
         LET f == ctx.tokenFlows[i]
         IN [symbol |-> f.symbol, name |-> f.name, decimals |-> f.decimals]
              = OwnMetadata(f.token)
    /\ \A a \in DOMAIN ctx.callTraceEnrichment :
         ctx.callTraceEnrichment[a] = EnrichAddress(a, "none").info
    /\ ctx = SequentialContext

\* The lookups finished in the reverse of the order they were started in,
\* two flows carry different metadata and the addresses were enriched.
C25_Witness ==
  /\ pc = "explain"
  /\ Len(ret.arrived) = TOKEN_LOOKUPS
  /\ \A j \in 1..Len(ret.arrived) : ret.arrived[j].index = TOKEN_LOOKUPS + 1 - j
  /\ \E i, j \in 1..Len(ctx.tokenFlows) :
       /\ ctx.tokenFlows[i].name # NULL
       /\ ctx.tokenFlows[j].name # NULL
       /\ ctx.tokenFlows[i].name # ctx.tokenFlows[j].name
  /\ \E a, b \in DOMAIN ctx.callTraceEnrichment :
       ctx.callTraceEnrichment[a] # ctx.callTraceEnrichment[b]

\* The tokens a source was asked about.
AskedTokens(n) == { log[i].a : i \in { j \in 1..Len(log) : log[j] = Call(n, log[j].a) } }

\* C30: metadata is looked up for at most the first five unique tokens, the
\* on-chain read comes first, and the explorer is asked about a token only
\* when the on-chain read of that token yielded nothing.
C30_TokenLookupsBounded ==
  /\ Cardinality(AskedTokens("getTokenInfoFromRPC")) <= TOKEN_LOOKUPS
  /\ AskedTokens("getTokenInfoFromRPC") \subseteq Range(LookedTokens(cfg))
  /\ \A i \in 1..Len(log) :
       log[i] = Call("getTokenInfo", log[i].a) =>
         /\ \E j \in 1..(i - 1) : log[j] = Call("getTokenInfoFromRPC", log[i].a)
         /\ cfg.tok[log[i].a].rpc = None

\* The part of C30 that does not depend on what the on-chain read yielded.
TokenLookupsCapped ==
  /\ Cardinality(AskedTokens("getTokenInfoFromRPC")) <= TOKEN_LOOKUPS
  /\ AskedTokens("getTokenInfoFromRPC") \subseteq Range(LookedTokens(cfg))
  /\ AskedTokens("getTokenInfo") \subseteq AskedTokens("getTokenInfoFromRPC")

(***************************************************************************)
(* Failures of the per-address lookups.                                    *)
(***************************************************************************)
EnrichmentCompleted ==
  /\ ctx.error = NULL
  /\ DOMAIN ctx.callTraceEnrichment = CappedCandidates
  /\ (cfg.sink /\ CandidateSeq # <<>>) => log[Len(log)].n = "calltrace_enrich_done"
  /\ \A a \in DOMAIN ctx.callTraceEnrichment :
       FaultOf(cfg.failing, a) = "none" =>
         ctx.callTraceEnrichment[a] =
           [label |-> KnownLabel(a), isContract |-> a \in ContractAddrs,
            abi |-> IF a = "b2" THEN "abi" ELSE NULL,
            source |-> IF a = "b2" THEN "source" ELSE NULL]

\* C26: an address with a failed lookup gets the record {label: null,
\* isContract: false}; the records of the other addresses are the ones of a
\* run without failures, the error field stays empty and
\* calltrace_enrich_done is sent.
C26_FailedLookupUnknown ==
  pc = "explain" =>
    /\ EnrichmentCompleted
    /\ \A a \in DOMAIN ctx.callTraceEnrichment :
         FaultOf(cfg.failing, a) # "none" =>
           ctx.callTraceEnrichment[a] =
             [label |-> NULL, isContract |-> FALSE, abi |-> NULL, source |-> NULL]

\* C26, amended: a lookup that throws leaves {label: null, isContract:
\* false}; a bytecode read that fails leaves the address's label with
\* isContract false; an explorer that fails leaves the label and the
\* contract flag without ABI and source.  The other addresses, the error
\* field and calltrace_enrich_done are as in a run without failures.
C26_FailedLookupDegraded ==
  pc = "explain" =>
    /\ EnrichmentCompleted
    /\ \A a \in DOMAIN ctx.callTraceEnrichment :
         LET fault == FaultOf(cfg.failing, a)
             info == ctx.callTraceEnrichment[a]
         IN /\ fault = "throws" =>
                 info = [label |-> NULL, isContract |-> FALSE, abi |-> NULL, source |-> NULL]
            /\ fault = "bytecode" =>
                 info = [label |-> KnownLabel(a), isContract |-> FALSE,
                         abi |-> NULL, source |-> NULL]
            /\ fault = "explorer" =>
                 info = [label |-> KnownLabel(a), isContract |-> a \in ContractAddrs,
                         abi |-> NULL, source |-> NULL]

\* One address threw, the bytecode read of a second failed, the explorer
\* failed for a third, and a fourth was enriched in full.
C26_Witness ==
  /\ pc = "explain"
  /\ cfg.sink
  /\ \E a, b, c, d \in DOMAIN ctx.callTraceEnrichment :
       /\ FaultOf(cfg.failing, a) = "throws"
       /\ FaultOf(cfg.failing, b) = "bytecode"
       /\ FaultOf(cfg.failing, c) = "explorer"
       /\ FaultOf(cfg.failing, d) = "none"
       /\ ctx.callTraceEnrichment[a].label = NULL
       /\ ctx.callTraceEnrichment[c].label = "Router"
  /\ log[Len(log)].n = "calltrace_enrich_done"

(***************************************************************************)
(* A collaborator that fails during Draft.                                 *)
(***************************************************************************)
\* C27: once the collaborator has failed during Draft, the error field
\* holds the draft error, no exception leaves the stage, the run goes on
\* through Verify to Output, and the final report is the error report of
\* that failure.
C27_DraftFailureCaught ==
  "draft" \in ret.failed =>
    /\ pc \in {"verify", "output", "tool", "done"}
    /\ ctx.error = DraftError
    /\ ctx.draftExplanation = NULL
    /\ Call("llm.invoke", "verify") \notin Range(log)
    /\ pc \in {"verify", "output"} => ctx.finalReport = None
    /\ pc \in {"tool", "done"} => ctx.finalReport = Some(ErrorReport(DraftError))

\* A run whose draft call failed has ended with the error report.
C27_Witness ==
  /\ pc = "done"
  /\ "draft" \in ret.failed
  /\ Call("llm.invoke", "draft") \in Range(log)
  /\ ctx.finalReport = Some(ErrorReport(DraftError))
  /\ ctx.rawTx # None

(***************************************************************************)
(* Decoding the top-level call.  cfg.tx is the transaction, cfg.bytecodeOk *)
(* tells whether the bytecode read of the destination answers, cfg.abi is  *)
(* the explorer's ABI answer and cfg.failing the failures met while the    *)
(* addresses of the calls are enriched.                                    *)
(***************************************************************************)
\* Calls of a verified contract with a known selector, an unknown selector,
\* less than a selector and no calldata; calldata sent to a wallet; a
\* contract creation.
DecodeTxs ==
  { [from |-> "u0", to |-> dest[1], value |-> "0", gasPrice |-> 30, input |-> dest[2],
     logs |-> <<>>] :
      dest \in { <<"b2", CALLDATA>>, <<"b2", UNKNOWN_CALLDATA>>, <<"b2", SHORT_CALLDATA>>,
                 <<"b2", "0x">>, <<"w9", CALLDATA>>, <<NULL, INITCODE>> } }

\* decodeFunctionData finds no function for calldata without a selector.
DecodeConfigs ==
  { c \in [useTenderly : {FALSE}, enableVerification : {TRUE}, sink : BOOLEAN,
           entry : {"analyzeTx"}, sinkFails : {{}}, tx : DecodeTxs, bytecodeOk : BOOLEAN,
           abi : AbiOutcomes, failing : FailureSets] :
      c.abi = "decodes" => SelectorOf(c.tx.input) # "0x" }

DecodeInit ==
  /\ pc = "extract"
  /\ cfg \in DecodeConfigs
  /\ ctx = InitialContext
  /\ log = <<>>
  /\ ret = NothingReturned

ExtractDecoding(c) ==
  ExtractNode(InitialContext, c, "ok", c.tx, c.bytecodeOk, c.abi, None, CallList(3), 0, <<>>)

\* extractNode on cfg.tx.
ExtractDecoded ==
  /\ pc = "extract"
  /\ \E r \in {Delivered(ExtractDecoding(cfg), cfg, "extract")} :
        /\ ctx' = Merge(ctx, r.upd)
        /\ log' = log \o r.log
        /\ pc' = AfterStage("extract", cfg, r)
  /\ ret' = [fetched |-> TRUE, completed |-> TRUE, trace |-> None,
             explorer |-> CallList(3), failed |-> {}, tx |-> Some(cfg.tx)]
  /\ UNCHANGED cfg

DecodeNext == ExtractDecoded \/ CallTraceEnrichFailing

DecodeSpec == DecodeInit /\ [][DecodeNext]_vars

\* Every ABI or source fetch of the calls l asks about an address of the
\* set confirmed, after the bytecode of that address was read.
FetchesGuarded(l, confirmed) ==
  \A i \in 1..Len(l) :
    (IsCall(l[i]) /\ l[i].n \in {"getContractABI", "getContractSource"}) =>
      /\ l[i].a \in confirmed
      /\ \E j \in 1..(i - 1) : l[j] = Call("getBytecode", l[i].a)

ExtractCalls == SubSeq(log, 1, Len(ExtractDecoding(cfg).log))
EnrichCalls == SubSeq(log, Len(ExtractDecoding(cfg).log) + 1, Len(log))

\* C28: ABI and source are fetched for an address only after its bytecode
\* check answered that it is a contract: in Extract for the destination, in
\* Enrichment for each candidate; never for an address whose check answered
\* false or failed.
C28_FetchOnlyConfirmedContracts ==
  pc # "extract" =>
    /\ FetchesGuarded(ExtractCalls,
                      IF cfg.bytecodeOk THEN ContractAddrs \cap {cfg.tx.to} ELSE {})
    /\ FetchesGuarded(EnrichCalls, ContractAddrs \ cfg.failing.bytecode)

\* Extract fetched the destination's ABI; Enrichment fetched it for one
\* contract and for neither the wallet nor the contract whose check failed.
C28_Witness ==
  /\ pc = "explain"
  /\ Call("getContractABI", "b2") \in Range(ExtractCalls)
  /\ "c3" \in cfg.failing.bytecode
  /\ Call("getBytecode", "c3") \in Range(EnrichCalls)
  /\ Call("getContractABI", "c3") \notin Range(EnrichCalls)
  /\ Call("getBytecode", "p03") \in Range(EnrichCalls)
  /\ Call("getContractABI", "p03") \notin Range(EnrichCalls)
  /\ Call("getContractSource", "b2") \in Range(EnrichCalls)

\* The ABI was fetched and the decoder was given calldata.
AbiFetched ==
  /\ cfg.tx.to # NULL /\ cfg.tx.to \in ContractAddrs /\ cfg.bytecodeOk
  /\ cfg.tx.input # "0x"

SelectorOnly ==
  [contract |-> cfg.tx.to,
   functionName |-> IF cfg.tx.input = CALLDATA THEN "transfer(address,uint256)"
                    ELSE "0xdeadbeef"]

\* C29: with an ABI that decodes the calldata the decoded call carries the
\* ABI's function; with an ABI whose decoding throws Extract returns
\* without error and the decoded call carries the selector's signature, or
\* the raw selector when no signature is known.
C29_AbiThenSelector ==
  (pc # "extract" /\ AbiFetched) =>
    /\ ctx.error = NULL
    /\ cfg.abi = "decodes" =>
         ctx.decodedCalls = <<[contract |-> cfg.tx.to, functionName |-> "abi:transfer"]>>
    /\ cfg.abi = "mismatch" => ctx.decodedCalls = <<SelectorOnly>>

\* C29, amended: as C29 for calldata of at least four bytes; for shorter
\* calldata there is no selector and no decoded call.
C29_AbiThenSelectorIfAny ==
  (pc # "extract" /\ AbiFetched) =>
    /\ ctx.error = NULL
    /\ cfg.abi = "decodes" =>
         ctx.decodedCalls = <<[contract |-> cfg.tx.to, functionName |-> "abi:transfer"]>>
    /\ cfg.abi = "mismatch" =>
         ctx.decodedCalls = IF cfg.tx.input = SHORT_CALLDATA THEN <<>> ELSE <<SelectorOnly>>

\* The ABI did not decode calldata with an unknown selector: the decoded
\* call carries the raw selector.
C29_Witness ==
  /\ pc = "enrich"
  /\ AbiFetched
  /\ cfg.abi = "mismatch"
  /\ cfg.tx.input = UNKNOWN_CALLDATA
  /\ ctx.decodedCalls = <<[contract |-> "b2", functionName |-> "0xdeadbeef"]>>
  /\ Call("getContractABI", "b2") \in Range(log)

(***************************************************************************)
(* Labels come from the offline store.                                     *)
(***************************************************************************)
\* The adapter calls that send a request to a network service.
NetworkCalls ==
  {"getTransaction", "getTransactionReceipt", "getBytecode", "getContractABI",
   "getContractSource", "getContractName", "traceTransaction",
   "getInternalTransactions", "getGasPriceAtBlock", "getTokenInfoFromRPC",
   "getTokenInfo", "llm.invoke"}

\* C31: no lookup of an address label, in Extract or in Enrichment, sends a
\* request to a network service, whether or not the store has a label for
\* the address; the labels of the enrichment records are the store's.
C31_LabelsOffline ==
  /\ "getAddressLabel" \notin NetworkCalls
  /\ \A i \in 1..Len(log) :
       IsCall(log[i]) =>
         log[i].n \in (NetworkCalls \ {"getContractName"}) \cup {"getAddressLabel"}
  /\ pc = "explain" =>
       \A a \in DOMAIN ctx.callTraceEnrichment :
         ctx.callTraceEnrichment[a].label \in {NULL, KnownLabel(a)}

\* Extract looked up the labels of the sender and of the labelled
\* destination, Enrichment the label of an address the store does not know.
C31_Witness ==
  /\ pc = "explain"
  /\ Call("getAddressLabel", "u0") \in Range(ExtractCalls)
  /\ Call("getAddressLabel", "b2") \in Range(ExtractCalls)
  /\ Call("getAddressLabel", "a1") \in Range(EnrichCalls)
  /\ KnownLabel("a1") = NULL
  /\ ctx.callTraceEnrichment["b2"].label = "Router"
  /\ ctx.callTraceEnrichment["p03"].label = NULL

(***************************************************************************)
(* The gas context.  Prices are counted in units of 0.0001 Gwei; cfg.tx is *)
(* the transaction's gas price, cfg.ref the explorer's reference price, 0  *)
(* when the explorer gave none.                                            *)
(***************************************************************************)
PriceUnit == 10000

\* Prices around the two thresholds: zero, below and at 0.001 Gwei, around
\* three times each reference price, and ordinary prices.
TxPrices ==
  {0, 5, 9, 10, 11, 20, 59, 60, 61, 199, 200, 201, 5999, 6000, 6001,
   200000, 300000, 599999, 600000, 600001, 900000}
RefPrices == {0, 2, 20, 2000, 10000, 200000}

GasConfigs ==
  [useTenderly : {FALSE}, enableVerification : {TRUE}, sink : {FALSE},
   entry : {"analyzeTx"}, sinkFails : {{}}, tx : TxPrices, ref : RefPrices]

GasInit ==
  /\ pc = "gas"
  /\ cfg \in GasConfigs
  /\ ctx = InitialContext
  /\ log = <<Call("getGasPriceAtBlock", "")>>
  /\ ret = NothingReturned

\* extractNode computing gasContext.
GasContextBuilt ==
  /\ pc = "gas"
  /\ ctx' = Merge(ctx, [gasContext |->
                          Some([currentPrice |-> cfg.ref,
                                isAbnormal |-> IsAbnormalAt(cfg.tx, cfg.ref, PriceUnit)])])
  /\ pc' = "done"
  /\ UNCHANGED <<cfg, log, ret>>

GasSpec == GasInit /\ [][GasContextBuilt]_vars

\* C32: isAbnormal is true exactly when a reference price is available and
\* the ratio of the transaction's price to it is above the high threshold
\* (3) or below the near-zero threshold (0.001).
C32_AbnormalByRatio ==
  pc = "done" =>
    (ctx.gasContext[1].isAbnormal <=>
       /\ cfg.ref # 0
       /\ \/ cfg.tx > 3 * cfg.ref
          \/ 1000 * cfg.tx < cfg.ref)

\* C32, amended: isAbnormal is true exactly when a reference price is
\* available and the transaction's price is more than three times the
\* reference or less than 0.001 Gwei.
C32_AbnormalByRatioOrPrice ==
  pc = "done" =>
    (ctx.gasContext[1].isAbnormal <=>
       /\ cfg.ref # 0
       /\ \/ cfg.tx > 3 * cfg.ref
          \/ 1000 * cfg.tx < PriceUnit)

\* A price of 0.0005 Gwei against a reference of 0.0002 Gwei: two and a half
\* times the reference, flagged because it is below 0.001 Gwei.
C32_Witness ==
  /\ pc = "done"
  /\ cfg.tx = 5 /\ cfg.ref = 2
  /\ ctx.gasContext[1].isAbnormal

(***************************************************************************)
(* The raw transaction after Extract.                                      *)
(***************************************************************************)
\* The fields of the context a stage writes.
OwnFields(stage) ==
  CASE stage = "enrich" -> {"callTraceEnrichment", "flattenedCalls"}
    [] stage = "explain" -> {"callTraceExplanation"}
    [] stage = "draft" -> {"draftExplanation", "error"}
    [] stage = "verify" -> {"verificationResult"}
    [] stage = "output" -> {"finalReport"}
    [] OTHER -> {}

\* A step of a stage after Extract keeps rawTx and changes only the stage's
\* own fields.
LaterStageKeepsTx(at) ==
  at # "extract" =>
    /\ ctx'.rawTx = ctx.rawTx
    /\ { f \in DOMAIN ctx : ctx'[f] # ctx[f] } \subseteq OwnFields(at)

\* C33: rawTx is written by Extract only: once set it is the transaction
\* the ledger returned, no later stage changes it, and each later stage
\* changes only its own fields of the context.
C33_RawTxImmutable ==
  /\ [](ctx.rawTx # None => ctx.rawTx = ret.tx)
  /\ [][LaterStageKeepsTx(pc)]_vars

\* A run has ended after a failed draft call with the transaction Extract
\* wrote still in the context.
C33_Witness ==
  /\ pc = "done"
  /\ ctx.rawTx # None /\ ctx.rawTx = ret.tx
  /\ "draft" \in ret.failed
  /\ ctx.finalReport # None
  /\ ctx.callTraceEnrichment # EmptyMap

(***************************************************************************)
(* Two runs at once.  pc, cfg and ctx hold one value for each run;         *)
(* ret.bound lists the runs whose sink is bound by runWithProgress, in the *)
(* order of binding; ret.pending holds, for each run, the emissions of its *)
(* current stage that are still to come; ret.received holds, for each     *)
(* sink, the events delivered to it with the run that emitted them.  The   *)
(* sink given to a run carries the run's name.                             *)
(***************************************************************************)
Runs == {"A", "B"}

RunConfigs ==
  [useTenderly : {FALSE}, enableVerification : {TRUE}, sink : BOOLEAN,
   entry : {"analyzeTx"}, sinkFails : {{}}, m : {"ok", "tx_failed"}]

\* A faulty store kept in one module-level variable: the sink bound last.
GetProgressLastBound(bound, r) ==
  IF bound = <<>> THEN None ELSE Some(bound[Len(bound)])

\* storage.getStore()?.onProgress in the asynchronous context of run r: the
\* sink bound by the runWithProgress call that started r.
GetProgress(bound, r) ==
  IF r \in Range(bound) THEN Some(r) ELSE None

\* The node of a stage on a run's own inputs, with its emission sites.
StageNode(stage, state, c) ==
  LET k == [c EXCEPT !.sink = TRUE]
  IN CASE stage = "extract" ->
            ExtractNode(state, k, c.m, PlainTransfer, FALSE, "none", None, CallList(1), 0,
                        <<>>)
       [] stage = "enrich" -> CallTraceEnrichNode(state, k, NoFailures)
       [] stage = "explain" -> CallTraceExplainNode(state, k, "The sender calls the router.")
       [] stage = "draft" -> DraftNode(state, k, "1. swap")
       [] stage = "verify" ->
            VerifyNode(state, k, Some(CHOOSE v \in VerifyReplies : v.startsOK))
       [] stage = "output" -> OutputNode(state, k)

PreviousStage(stage) ==
  CASE stage = "enrich" -> "extract"
    [] stage = "explain" -> "enrich"
    [] stage = "draft" -> "explain"
    [] stage = "verify" -> "draft"
    [] stage = "output" -> "verify"
    [] OTHER -> "output"

\* The context of a run of configuration c that executes alone, when it
\* reaches a position.
RECURSIVE SoloContext(_, _)
SoloContext(c, at) ==
  IF at \in {"idle", "extract"} THEN InitialContext
  ELSE LET before == SoloContext(c, PreviousStage(at))
       IN Merge(before, StageNode(PreviousStage(at), before, c).upd)

ConcurrentInit ==
  /\ pc = [r \in Runs |-> "idle"]
  /\ cfg \in [Runs -> RunConfigs]
  /\ ctx = [r \in Runs |-> InitialContext]
  /\ log = <<>>
  /\ ret = [bound |-> <<>>, pending |-> [r \in Runs |-> <<>>],
            received |-> [r \in Runs |-> <<>>]]

\* analyzeTx: the sink, when one is given, is bound for the run.
StartRun(r) ==
  /\ pc[r] = "idle"
  /\ pc' = [pc EXCEPT ![r] = "extract"]
  /\ ret' = [ret EXCEPT !.bound = IF cfg[r].sink THEN Append(@, r) ELSE @]
  /\ UNCHANGED <<cfg, ctx, log>>

\* A stage of run r executes on r's context.
RunStage(r) ==
  /\ pc[r] \in {"extract", "enrich", "explain", "draft", "verify", "output"}
  /\ ret.pending[r] = <<>>
  /\ \E res \in {StageNode(pc[r], ctx[r], cfg[r])} :
       /\ ctx' = [ctx EXCEPT ![r] = Merge(@, res.upd)]
       /\ ret' = [ret EXCEPT !.pending[r] = SelectSeq(res.log, IsEvent)]
  /\ pc' = [pc EXCEPT ![r] = NextStage(@)]
  /\ UNCHANGED <<cfg, log>>

\* getProgress()?.(event) at the next emission site of run r.
EmitNext(r) ==
  /\ ret.pending[r] # <<>>
  /\ LET sink == GetProgress(ret.bound, r)
         event == [by |-> r, n |-> Head(ret.pending[r]).n]
     IN ret' = [ret EXCEPT !.pending[r] = Tail(@),
                           !.received = IF sink = None THEN @
                                        ELSE [@ EXCEPT ![sink[1]] = Append(@, event)]]
  /\ UNCHANGED <<pc, cfg, ctx, log>>

\* The run returns: the scope of runWithProgress ends.
EndRun(r) ==
  /\ pc[r] = "end"
  /\ ret.pending[r] = <<>>
  /\ pc' = [pc EXCEPT ![r] = "done"]
  /\ ret' = [ret EXCEPT !.bound = SelectSeq(@, LAMBDA b : b # r)]
  /\ UNCHANGED <<cfg, ctx, log>>

ConcurrentNext ==
  \E r \in Runs : StartRun(r) \/ RunStage(r) \/ EmitNext(r) \/ EndRun(r)

ConcurrentSpec == ConcurrentInit /\ [][ConcurrentNext]_vars

\* The events run r has emitted so far, in order.
EmittedBy(r) ==
  LET stages == <<"extract", "enrich", "explain", "draft", "verify", "output">>
      Over(st) == pc[r] \in {"end", "done"} \/
                    (pc[r] # "idle" /\ StepsLeft(st) > StepsLeft(pc[r]))
      all == Concat([i \in 1..Len(stages) |->
                       IF Over(stages[i])
                       THEN SelectSeq(StageNode(stages[i], SoloContext(cfg[r], stages[i]),
                                                cfg[r]).log, IsEvent)
                       ELSE <<>>])
  IN SubSeq(all, 1, Len(all) - Len(ret.pending[r]))

SinkQuietOutsideRun ==
  \A r \in Runs :
    (pc[r] \in {"idle", "done"} /\ pc'[r] = pc[r]) => ret'.received[r] = ret.received[r]

ContextUntouchedByOthers ==
  \A r \in Runs :
    (pc'[r] = pc[r]) => ctx'[r] = ctx[r]

\* C34: with two runs interleaved at every emission and every stage, each
\* sink receives exactly the events of its own run, in the order the run
\* emitted them and only while the run lasts; a run without a sink delivers
\* nothing; each context is the one of the run executing alone and is
\* changed by its own run only.
C34_RunsIsolated ==
  /\ [](\A r \in Runs :
          /\ \A i \in 1..Len(ret.received[r]) : ret.received[r][i].by = r
          /\ [i \in 1..Len(ret.received[r]) |-> ret.received[r][i].n]
               = IF cfg[r].sink
                 THEN [i \in 1..Len(EmittedBy(r)) |-> EmittedBy(r)[i].n]
                 ELSE <<>>
          /\ ctx[r] = SoloContext(cfg[r], pc[r]))
  /\ [][SinkQuietOutsideRun /\ ContextUntouchedByOthers]_vars

\* Run B started, failed and returned while run A was in the middle of its
\* draft stage with an emission still to come: A's sink holds A's events so
\* far, B's sink holds B's one event, and A's sink is still bound.
C34_Witness ==
  /\ pc["A"] = "verify" /\ Len(ret.pending["A"]) = 1
  /\ pc["B"] = "done"
  /\ cfg["A"].sink /\ cfg["B"].sink
  /\ cfg["A"].m = "ok" /\ cfg["B"].m = "tx_failed"
  /\ Len(ret.received["A"]) > 5
  /\ ret.received["B"] = <<[by |-> "B", n |-> "done"]>>
  /\ ret.bound = <<"A">>
  /\ ctx["A"].rawTx # None /\ ctx["B"].rawTx = None

(***************************************************************************)
(* The flattened sequence of a transaction without a call tree.            *)
(***************************************************************************)
\* C35: after Call-Trace Enrichment of a transaction without a call tree the
\* flattened sequence has the length of the fused internal-transaction list,
\* and its entry at position i (counted from zero) has depth 0, index i and
\* the from, to and value of the list's element i.
C35_FlatFallbackUniform ==
  (pc # "enrich" /\ ctx.rawTx # None /\ ~HasTraceRoot(ctx)) =>
    LET list == ctx.internalTxs
        flat == ctx.flattenedCalls
    IN /\ Len(flat) = Len(list)
       /\ \A i \in 1..Len(list) :
            /\ flat[i].depth = 0
            /\ flat[i].index = i - 1
            /\ flat[i].from = list[i].from
            /\ flat[i].to = list[i].to
            /\ flat[i].value = list[i].value

\* Enrichment has flattened an explorer list of several calls with differing
\* values.
C35_Witness ==
  /\ pc # "enrich" /\ ctx.rawTx # None /\ ~HasTraceRoot(ctx)
  /\ Len(ctx.flattenedCalls) = MaxCalls
  /\ ctx.flattenedCalls[2].value # ctx.flattenedCalls[3].value
  /\ ctx.flattenedCalls[3].index = 2

(***************************************************************************)
(* A run whose mandatory fetch fails.                                      *)
(***************************************************************************)
MandatoryFetchFailed == RunReturned /\ ~ret.fetched

\* The ledger reads of the mandatory fetch.
MandatoryCalls == {"getTransaction", "getTransactionReceipt"}

OnlyMandatoryCalls ==
  \A i \in 1..Len(log) : IsCall(log[i]) => log[i].n \in MandatoryCalls

\* C36: a run whose transaction or receipt fetch failed has invoked no other
\* adapter, and its bound sink has received exactly one event, done, with
\* the error report as the final report.
C36_MandatoryFailureStopsRun ==
  MandatoryFetchFailed =>
    /\ OnlyMandatoryCalls
    /\ ctx.finalReport = Some(ErrorReport(ExtractError))
    /\ cfg.sink => EventNames = <<"done">>

(***************************************************************************)
(* The events of a successful Extract.                                     *)
(***************************************************************************)
ExtractEvents ==
  {"rpc_done", "etherscan_start", "tenderly_start", "tenderly_done", "etherscan_done"}

\* The events of Extract in a log, in the order the sink received them.
ExtractEventNamesIn(l) ==
  LET IsExtractEvent(e) == IsEvent(e) /\ e.n \in ExtractEvents
      seen == SelectSeq(l, IsExtractEvent)
  IN [i \in 1..Len(seen) |-> seen[i].n]

ExtractEventNames == ExtractEventNamesIn(log)

\* The positions in a log of the entries with a name.
At(l, n) == { i \in 1..Len(l) : l[i].n = n }

AllBefore(l, a, b) == \A i \in At(l, a), j \in At(l, b) : i < j

\* The log l of a successful Extract with a sink bound.
ExtractOrdered(l) ==
  /\ ExtractEventNamesIn(l) =
       IF cfg.useTenderly
       THEN <<"rpc_done", "etherscan_start", "tenderly_start", "tenderly_done",
              "etherscan_done">>
       ELSE <<"rpc_done", "etherscan_start", "tenderly_done", "etherscan_done">>
  /\ cfg.useTenderly =>
       /\ Cardinality(At(l, "traceTransaction")) = 1
       /\ \A i \in At(l, "tenderly_start") : i + 1 \in At(l, "traceTransaction")
  /\ ~cfg.useTenderly => At(l, "traceTransaction") = {}
  /\ At(l, "getTransaction") # {} /\ At(l, "getTransactionReceipt") # {}
  /\ AllBefore(l, "getTransaction", "rpc_done")
  /\ AllBefore(l, "getTransactionReceipt", "rpc_done")
  /\ At(l, "getInternalTransactions") # {}
  /\ AllBefore(l, "getInternalTransactions", "etherscan_done")

C38_TraversalsAgree ==
  pc = "explain" =>
    LET flat == FlattenCallTrace(ReturnedRoot, 0, 0).result
        all == ExtractAllCallsFromTrace(ReturnedRoot)
    IN /\ ctx.flattenedCalls = flat
       /\ Len(flat) = Len(all) /\ Len(flat) = Len(ctx.internalTxs)
       /\ \A i \in 1..Len(flat) :
            /\ flat[i].from = all[i].from /\ flat[i].to = all[i].to
            /\ flat[i].from = ctx.internalTxs[i].from
            /\ flat[i].to = ctx.internalTxs[i].to

\* Enrichment has flattened a trace of MaxTreeNodes nodes with a nested call
\* followed by a sibling, whose entries differ in their addresses.
C38_Witness ==
  /\ pc = "explain"
  /\ Len(ctx.flattenedCalls) = MaxTreeNodes
  /\ Len(ReturnedRoot.calls) = 2 /\ Len(ReturnedRoot.calls[1].calls) = 1
  /\ ctx.flattenedCalls[1].to # ctx.flattenedCalls[2].to
  /\ ctx.flattenedCalls[3].depth = 2 /\ ctx.flattenedCalls[4].depth = 1

(***************************************************************************)
(* The keys of the enrichment map and the number reported.                 *)
(***************************************************************************)
\* The addresses of the explorer's calls as the explorer wrote them.
RawAddresses ==
  UNION { {ret.explorer[i].from, ret.explorer[i].to} : i \in 1..Len(ret.explorer) }

EnrichEvents == { i \in 1..Len(log) : IsEvent(log[i]) /\
                    log[i].n \in {"calltrace_enrich_start", "calltrace_enrich_done"} }

\* C39: after Call-Trace Enrichment the keys of the map are the first
\* min(C, U) distinct lower-cased addresses in order of first appearance, U
\* being the number of addresses up to letter case; calltrace_enrich_done
\* carries that number; for an empty call list the map is empty and no
\* enrichment event is sent.
C39_EnrichmentKeys ==
  pc = "explain" =>
    LET U == Cardinality({ ToLower(a) : a \in RawAddresses })
        n == Min(MAX_ADDRESSES_TO_ENRICH, U)
        keys == DOMAIN ctx.callTraceEnrichment
    IN /\ Cardinality(keys) = n
       /\ keys = { a \in Range(CandidateSeq) :
                     Cardinality({ b \in Range(CandidateSeq) : FirstAt(b) < FirstAt(a) }) < n }
       /\ \A a \in keys : ToLower(a) = a
       /\ (cfg.sink /\ ret.explorer # <<>>) =>
            /\ Cardinality(EnrichEvents) = 2
            /\ log[Len(log)].n = "calltrace_enrich_done"
            /\ log[Len(log)].a = NumberText(n)
       /\ ret.explorer = <<>> => keys = {} /\ EnrichEvents = {}

\* A list whose first call goes from an address to the same address in
\* another letter case, with more than C addresses in all: C keys, a1 among
\* them once, and the number C reported.
C39_Witness ==
  /\ pc = "explain" /\ cfg.sink
  /\ {"A1", "a1"} \subseteq RawAddresses
  /\ Cardinality({ ToLower(a) : a \in RawAddresses }) > MAX_ADDRESSES_TO_ENRICH
  /\ Cardinality(DOMAIN ctx.callTraceEnrichment) = MAX_ADDRESSES_TO_ENRICH
  /\ "a1" \in DOMAIN ctx.callTraceEnrichment
  /\ log[Len(log)].a = "20"

(***************************************************************************)
(* The Call-Trace Explanation step.                                        *)
(***************************************************************************)
\* The log entries a step appended.
Appended == SubSeq(log', Len(log) + 1, Len(log'))

ExplainCalls == { i \in 1..Len(Appended) : IsCall(Appended[i]) }

\* A step of the Call-Trace Explanation stage: the run goes on to Draft with
\* the error field as it was; without an error the explanation is the
\* collaborator's text, the text for an empty call list or the text of the
\* failure; with the error field set or an empty call list no call is made.
ExplainNeverFatal ==
  (pc = "explain" /\ pc' # pc) =>
    /\ pc' = "draft"
    /\ ctx'.error = ctx.error
    /\ ctx.error = NULL =>
         /\ ctx'.callTraceExplanation \in
              (ExplainReplies \ {NULL}) \cup
              {"No call trace available.", "Failed to explain call trace"}
         /\ ctx.flattenedCalls = <<>> <=>
              ctx'.callTraceExplanation = "No call trace available."
         /\ ctx.flattenedCalls # <<>> => Cardinality(ExplainCalls) = 1
    /\ (ctx.error # NULL \/ ctx.flattenedCalls = <<>>) => ExplainCalls = {}

\* C40: the Call-Trace Explanation step is never fatal: for every reply or
\* failure of the collaborator it leaves the error field unset and yields an
\* explanation text, and it calls no collaborator when the error field is
\* set or the flattened call list is empty.
C40_ExplainNeverFatal == [][ExplainNeverFatal]_vars

\* The collaborator failed on a non-empty call list: the run is in Draft
\* without an error, with the text of the failure as explanation.
C40_Witness ==
  /\ pc = "draft" /\ "explain" \in ret.failed
  /\ ctx.error = NULL /\ ctx.flattenedCalls # <<>>
  /\ ctx.callTraceExplanation = "Failed to explain call trace"

====
